---- MODULE Spec2Model ----
(***************************************************************************)
(* Session resilience core of the InteractiveAvatar component revisions.   *)
(*                                                                         *)
(* One state machine per component revision, over one set of variables     *)
(* (the refs and flags of a component instance, the browser's timer table  *)
(* and the position of every asynchronous continuation):                   *)
(*   IA  src/components/InteractiveAvatar.tsx      (back-off revision)     *)
(*   RC  src/unnamed/part_002 lines 1-319          (recycle revision)      *)
(*   GW  src/unnamed/part_002 lines 413-795        (grace-window revision) *)
(*   WD  src/unnamed/part_000                      (watchdog revision)     *)
(*   SE  src/unnamed/part_002 lines 797-1215       (socket-error revision) *)
(* The session hook (useStreamingAvatarSession / useVoiceChat) is not part *)
(* of the sources; its operations are modelled from the specification.     *)
(***************************************************************************)
EXTENDS Integers, FiniteSets, Sequences, TLC

VARIABLES
    rev,                  \* which revision of the component is running
    mounted,              \* FALSE once useUnmount has run
    sessionState,         \* hook: "INACTIVE" | "CONNECTING" | "CONNECTED"
    stream,               \* hook: a media stream is attached to the video element
    avatarRef,            \* avatarRef.current: 0 = null, else a session handle
    isVoiceChatRef,       \* isVoiceChatRef.current
    keepAliveIntervalRef, \* keepAliveIntervalRef.current # null
    reconnectRef,         \* [attempts, timer, graceTimer]; 0 = undefined
    timers,               \* browser timer table: live setTimeout entries
    resetInFlight,        \* single-flight flags of the grace-window revision
    startInFlight,
    stopInFlight,
    voicePausedRef,
    voiceStartInFlight,
    body,                 \* hard-reset timer callbacks: slot -> [pc, token, attempt]
    lastResetLog,         \* what the last finished callback logged: done / failed
    startTask,            \* startSessionV2 continuation: [pc, voice, token]
    resumeTask,           \* maybeResumeVoice started by STREAM_READY: pc
    unmountStop,          \* the stopAvatar() call of useUnmount is in flight
    softRestarts,         \* STREAM_DISCONNECTED handlers awaiting softRestartTracks
    recycleTask,          \* silent-recycle interval callback: [pc, token]
    online,               \* navigator.onLine
    videoTime,            \* videoRef.current.currentTime
    watchdog,             \* watchdog effect closures: id -> [previousTime, freezeCount]
    watchdogIntervalRef,  \* closure of the live watchdog interval; 0 = cleared
    ticks,                \* watchdog callbacks suspended at an await: [pc, cl, soft]
    hardResets,           \* hardReset() calls suspended at an await, by caller
    isVoiceChatActive,    \* hook: the voice channel is open
    webSocketErrors,      \* the webSocketErrors state of the socket-error revision
    sinceLastError,       \* Date.now() - lastWebSocketErrorRef.current, in ms
    errorsSeen,           \* WebSocket errors written to the console at this instant
    restartTask,          \* restartVoiceChat() calls suspended at an await: pc
    keepAlives,           \* handles of the armed keepalive interval timers
    keepAliveCalls,       \* keepAlive() invocations so far
    configRef             \* configRef.current.activityIdleTimeout; 0 = not set

vars == <<rev, mounted, sessionState, stream, avatarRef, isVoiceChatRef,
          keepAliveIntervalRef, reconnectRef, timers, resetInFlight,
          startInFlight, stopInFlight, voicePausedRef, voiceStartInFlight,
          body, lastResetLog, startTask, resumeTask, unmountStop, softRestarts,
          recycleTask, online, videoTime, watchdog, watchdogIntervalRef, ticks,
          hardResets, isVoiceChatActive, webSocketErrors, sinceLastError,
          errorsSeen, restartTask, keepAlives, keepAliveCalls, configRef>>

\* state only the watchdog and socket-error revisions have code for
watchVars == <<videoTime, watchdog, watchdogIntervalRef, ticks, hardResets,
               isVoiceChatActive, webSocketErrors, sinceLastError, errorsSeen, restartTask,
               keepAliveCalls>>

(***************************************************************************)
(* Bounds of the model.                                                    *)
(***************************************************************************)
\* hardResetWithBackoff is not called to schedule once attempts has reached this
MaxAttempts == 5
\* hard-reset callbacks that may be suspended at an await at the same time
MaxBodies == 1
\* STREAM_DISCONNECTED handlers that may await their soft restart at the same time
MaxSoft == 1
\* watchdog callbacks that may be suspended at an await at the same time
MaxTicks == 2
\* interval handles setInterval may hand out at the same time
MaxIntervals == 2
\* keepAlive() invocations that are counted
MaxPings == 1
\* hardReset() calls nothing awaits that may be suspended at the same time
MaxDetached == 1
\* restartVoiceChat() calls that may be suspended at an await at the same time
MaxRestarts == 1
\* the playback position, in watchdog-visible increments
MaxVideoTime == 1
\* WebSocket errors written to the console without time passing in between
MaxBurst == 3

(***************************************************************************)
(* Program constants.                                                      *)
(***************************************************************************)
BASE_DELAY == 1000
CEILING_IA == 15000
JITTER_IA == 300
CEILING_GW == 20000
JITTER_GW == 500
GRACE_DISCONNECT == 4000
GRACE_TRACK == 3000
SOFT_LIMIT == 3
ERROR_SPACING == 5000
VOICE_RESTART_AT == 3
HARD_RESET_ABOVE == 10
ERROR_DECAY == 30000
ERROR_RECENT == 10000
DEFAULT_IDLE_TIMEOUT == 3600
MAX_IDLE_TIMEOUT == 3600
RECYCLE_IDLE_TIMEOUT == 3200

\* DEFAULT_CONFIG.activityIdleTimeout: only the watchdog and the socket-error
\* revision set the field
DEFAULT_CONFIG == IF rev \in {"WD", "SE"} THEN DEFAULT_IDLE_TIMEOUT ELSE 0

\* { ...configRef.current, activityIdleTimeout: 3600 }
extendedConfig(cfg) == MAX_IDLE_TIMEOUT

\* { ...configRef.current, activityIdleTimeout: 3200 }
recycleConfig(cfg) == RECYCLE_IDLE_TIMEOUT

Slots == 1..MaxBodies
Handles == 1..(MaxBodies + 3)

RECURSIVE Pow2(_)
Pow2(k) == IF k = 0 THEN 1 ELSE 2 * Pow2(k - 1)

Min(a, b) == IF a < b THEN a ELSE b

\* Math.floor(Math.random() * J): the two ends of 0 .. J-1
Jitter(J) == {0, J - 1}

\* window.setTimeout returns a handle no live timer has
NewHandle(tbl) == CHOOSE h \in Handles :
                     /\ h \notin {t.h : t \in tbl}
                     /\ \A g \in Handles : g < h => g \in {t.h : t \in tbl}

\* clearTimeout(h)
ClearTimeout(tbl, h) == {t \in tbl : t.h # h}

IdleBody == [pc |-> "idle", token |-> "none", attempt |-> 0, idleTimeout |-> 0]
IdleStart == [pc |-> "idle", voice |-> FALSE, token |-> "none", idleTimeout |-> 0]
IdleRecycle == [pc |-> "idle", token |-> "none", idleTimeout |-> 0]

\* the ages, in ms, at which Date.now() - lastWebSocketErrorRef.current is
\* sampled: one in every interval the comparisons with 5000, 10000 and 30000
\* tell apart, and the two ends of each
AgeSamples == {0, 5000, 7500, 10000, 30000, 32500}

\* lastWebSocketErrorRef.current is 0: the last error is as old as can be
Oldest == CHOOSE a \in AgeSamples : \A b \in AgeSamples : b <= a

Ticks == 1..MaxTicks
Closures == 1..(MaxTicks + 1)
\* who called a hardReset(): the watchdog callback that awaits it, or a
\* number below 1 when nothing awaits it
DetachedSlots == (1 - MaxDetached)..0
HardSlots == (1 - MaxDetached)..MaxTicks
RestartSlots == 1..MaxRestarts

\* let previousTime = 0; let freezeCount = 0
NewClosure == [previousTime |-> 0, freezeCount |-> 0]
IdleTick == [pc |-> "idle", cl |-> 0, soft |-> "none"]
IdleHard == [pc |-> "idle", token |-> "none", idleTimeout |-> 0]

FreeSlot == CHOOSE s \in Slots :
               /\ body[s].pc = "idle"
               /\ \A r \in Slots : r < s => body[r].pc # "idle"

Executing == {s \in Slots : body[s].pc # "idle"}

\* callback s moves on to its next await
BodyGoes(s, pc) ==
    /\ body' = [body EXCEPT ![s].pc = pc]
    /\ UNCHANGED lastResetLog

\* callback s returns, having logged "HARD reset done" or "hard reset failed"
BodyEnds(s, logged) ==
    /\ body' = [body EXCEPT ![s] = IdleBody]
    /\ lastResetLog' = logged

isHealthy == sessionState = "CONNECTED"

(***************************************************************************)
(* The keepalive interval, as the helpers below pass it on:                *)
(* ref = keepAliveIntervalRef.current (0 = null), tbl = keepAlives.        *)
(***************************************************************************)
KeepAlive == [ref |-> keepAliveIntervalRef, tbl |-> keepAlives]

SetKeepAlive(k) ==
    /\ keepAliveIntervalRef' = k.ref
    /\ keepAlives' = k.tbl

IntervalHandles == 1..MaxIntervals

\* setInterval returns a handle no armed interval has
NewInterval(tbl) == CHOOSE h \in IntervalHandles :
                      /\ h \notin tbl
                      /\ \A g \in IntervalHandles : g < h => g \in tbl

clearInterval(tbl, h) == tbl \ {h}

\* if (keepAliveIntervalRef.current == null) ... = window.setInterval(...)
armKeepAlive(k) ==
    IF k.ref # 0 THEN k
    ELSE LET h == NewInterval(k.tbl)
         IN  [ref |-> h, tbl |-> k.tbl \cup {h}]

\* if (keepAliveIntervalRef.current) { clearInterval(...); ... = null }
disarmKeepAlive(k) ==
    IF k.ref # 0 THEN [ref |-> 0, tbl |-> clearInterval(k.tbl, k.ref)] ELSE k

(***************************************************************************)
(* The state after construction of the component.                          *)
(***************************************************************************)
InitCommon ==
    /\ mounted = TRUE
    /\ sessionState = "INACTIVE"
    /\ stream = FALSE
    /\ avatarRef = 0
    /\ isVoiceChatRef = FALSE
    /\ keepAliveIntervalRef = 0
    /\ keepAlives = {}
    /\ keepAliveCalls = 0
    /\ configRef = DEFAULT_CONFIG
    /\ reconnectRef = [attempts |-> 0, timer |-> 0, graceTimer |-> 0]
    /\ timers = {}
    /\ resetInFlight = FALSE
    /\ startInFlight = FALSE
    /\ stopInFlight = FALSE
    /\ voicePausedRef = FALSE
    /\ voiceStartInFlight = FALSE
    /\ body = [s \in Slots |-> IdleBody]
    /\ lastResetLog = "none"
    /\ startTask = IdleStart
    /\ resumeTask = "idle"
    /\ unmountStop = FALSE
    /\ softRestarts = 0
    /\ recycleTask = IdleRecycle
    /\ online = TRUE
    /\ videoTime = 0
    /\ watchdog = [c \in Closures |-> NewClosure]
    /\ watchdogIntervalRef = IF rev \in {"WD", "SE"} THEN 1 ELSE 0
    /\ ticks = [i \in Ticks |-> IdleTick]
    /\ hardResets = [h \in HardSlots |-> IdleHard]
    /\ isVoiceChatActive = FALSE
    /\ webSocketErrors = 0
    /\ sinceLastError = Oldest
    /\ errorsSeen = 0
    /\ restartTask = [r \in RestartSlots |-> "idle"]

(***************************************************************************)
(* Session hook, modelled from the specification (sections 3 and 4.2).     *)
(***************************************************************************)
\* fetch("/api/get-access-token"): 2xx, non-2xx, or the transport fails
FetchOutcomes == {"ok", "http500", "neterr"}

\* the token a fetch outcome yields when the response status is not inspected
TokenOf(outcome) == IF outcome = "ok" THEN "good" ELSE "bad"

\* startAvatar(cfg): resolves once the transport is ready, or fails with
\* SessionStartError; a session built from an error body never starts
StartOutcomes(token) == IF token = "good" THEN {"resolve", "reject"} ELSE {"reject"}

\* stopAvatar(): the session is torn down, or the call rejects and the hook's
\* state is whatever the broken session left
StopOutcomes == {"resolve", "reject"}

\* startVoiceChat()
VoiceOutcomes == {"resolve", "reject"}

\* sessionState and stream once startAvatar has settled
HookAfterStart(outcome) ==
    IF outcome = "resolve" THEN [state |-> "CONNECTED", stream |-> TRUE]
    ELSE [state |-> "INACTIVE", stream |-> FALSE]

\* sessionState once stopAvatar has settled
HookAfterStop(outcome) ==
    IF outcome = "resolve" THEN "INACTIVE" ELSE sessionState


(***************************************************************************)
(* The recovery coordinator's record, as the helpers below pass it on:     *)
(* ref = reconnectRef.current, rif = resetInFlight.current, tbl = timers.  *)
(***************************************************************************)
Coord == [ref |-> reconnectRef, rif |-> resetInFlight, tbl |-> timers]

SetCoord(c) ==
    /\ reconnectRef' = c.ref
    /\ resetInFlight' = c.rif
    /\ timers' = c.tbl

\* the bound on the attempt counter, on the coordinator a handler leaves
Capped(c) == c.ref.attempts <= MaxAttempts

BackoffTimer(h, attempt, delay) ==
    [h |-> h, kind |-> "backoff", attempt |-> attempt, delay |-> delay]

GraceTimer(h, delay) ==
    [h |-> h, kind |-> "grace", attempt |-> 0, delay |-> delay]

\* state the grace-window revision has no code for
notGW == <<softRestarts, recycleTask, online>>

(***************************************************************************)
(* GW: the grace-window revision, src/unnamed/part_002 lines 413-795.      *)
(***************************************************************************)
InitGW == rev = "GW" /\ InitCommon

\* fetchAccessToken: the status is not inspected, only a transport failure throws
fetchAccessToken_GW(outcome) ==
    IF outcome = "neterr" THEN "throw" ELSE TokenOf(outcome)

\* pauseVoicePump: the value it leaves in voicePausedRef.current
pauseVoicePump == TRUE

\* a cancelPendingHardReset that forgets the grace timer
cancelPendingHardReset_keepsGrace(c) ==
    LET t1 == IF c.ref.timer # 0 THEN ClearTimeout(c.tbl, c.ref.timer) ELSE c.tbl
    IN  [c EXCEPT !.ref = [attempts |-> 0, timer |-> 0,
                           graceTimer |-> c.ref.graceTimer],
                  !.tbl = t1]

\* cancelPendingHardReset, on the coordinator record
cancelPendingHardReset(c) ==
    LET t1 == IF c.ref.timer # 0 THEN ClearTimeout(c.tbl, c.ref.timer) ELSE c.tbl
        t2 == IF c.ref.graceTimer # 0 THEN ClearTimeout(t1, c.ref.graceTimer) ELSE t1
    IN  [c EXCEPT !.ref = [attempts |-> 0, timer |-> 0, graceTimer |-> 0],
                  !.tbl = t2]

\* a hardResetWithBackoff guarded by the pending timer alone
hardResetWithBackoff_GW_timerOnly(c, j) ==
    IF c.ref.timer # 0 THEN c
    ELSE LET attempt == c.ref.attempts
             delay == Min(CEILING_GW, BASE_DELAY * Pow2(attempt)) + j
             h == NewHandle(c.tbl)
         IN  [ref |-> [c.ref EXCEPT !.attempts = attempt + 1, !.timer = h],
              rif |-> TRUE,
              tbl |-> c.tbl \cup {BackoffTimer(h, attempt, delay)}]

\* hardResetWithBackoff up to the setTimeout call; j is the jitter drawn
hardResetWithBackoff_GW(c, j) ==
    IF c.rif \/ c.ref.timer # 0 THEN c
    ELSE LET attempt == c.ref.attempts
             delay == Min(CEILING_GW, BASE_DELAY * Pow2(attempt)) + j
             h == NewHandle(c.tbl)
         IN  [ref |-> [c.ref EXCEPT !.attempts = attempt + 1, !.timer = h],
              rif |-> TRUE,
              tbl |-> c.tbl \cup {BackoffTimer(h, attempt, delay)}]

\* a disruption handler that asks for the hard reset at once
armGrace_noWindow(c, delay) == hardResetWithBackoff_GW(c, 0)

\* the grace timer a disruption arms, unless one is pending
armGrace(c, delay) ==
    IF c.ref.graceTimer # 0 THEN c
    ELSE LET h == NewHandle(c.tbl)
         IN  [c EXCEPT !.ref.graceTimer = h,
                       !.tbl = c.tbl \cup {GraceTimer(h, delay)}]

\* maybeResumeVoice up to its await: does it call startVoiceChat?
resumeCalls(healthy) ==
    /\ healthy
    /\ isVoiceChatRef
    /\ ~voiceStartInFlight

\* STREAM_READY handler; the hook marks the session connected
StreamReady_GW ==
    /\ rev = "GW"
    /\ sessionState # "INACTIVE"
    /\ SetCoord(cancelPendingHardReset(Coord))
    /\ IF resumeCalls(isHealthy)
       THEN voiceStartInFlight' = TRUE /\ resumeTask' = "voice"
       ELSE UNCHANGED <<voiceStartInFlight, resumeTask>>
    /\ sessionState' = "CONNECTED"
    /\ stream' = TRUE
    /\ UNCHANGED <<rev, configRef, watchVars, mounted, avatarRef, isVoiceChatRef, keepAliveIntervalRef, keepAlives,
                   startInFlight, stopInFlight, voicePausedRef, body, lastResetLog, startTask,
                   unmountStop, notGW>>

\* the startVoiceChat call of that maybeResumeVoice settles
ResumeVoiceReturns_GW ==
    /\ rev = "GW"
    /\ resumeTask = "voice"
    /\ \E o \in VoiceOutcomes :
         voicePausedRef' = IF o = "resolve" THEN FALSE ELSE voicePausedRef
    /\ voiceStartInFlight' = FALSE
    /\ resumeTask' = "idle"
    /\ UNCHANGED <<rev, configRef, watchVars, mounted, sessionState, stream, avatarRef, isVoiceChatRef,
                   keepAliveIntervalRef, keepAlives, reconnectRef, timers, resetInFlight,
                   startInFlight, stopInFlight, body, lastResetLog, startTask, unmountStop, notGW>>

\* STREAM_DISCONNECTED handler; the transport may recover by itself or not
StreamDisconnected_GW ==
    /\ rev = "GW"
    /\ sessionState # "INACTIVE"
    /\ voicePausedRef' = pauseVoicePump
    /\ SetCoord(armGrace(Coord, GRACE_DISCONNECT))
    /\ \E down \in BOOLEAN :
         /\ sessionState' = IF down THEN "INACTIVE" ELSE sessionState
         /\ stream' = IF down THEN FALSE ELSE stream
    /\ UNCHANGED <<rev, configRef, watchVars, mounted, avatarRef, isVoiceChatRef, keepAliveIntervalRef, keepAlives,
                   startInFlight, stopInFlight, voiceStartInFlight, body, lastResetLog,
                   startTask, resumeTask, unmountStop, notGW>>

\* onTrackProblem: the remote video track ended or was muted
TrackProblem_GW ==
    /\ rev = "GW"
    /\ mounted
    /\ stream
    /\ voicePausedRef' = pauseVoicePump
    /\ SetCoord(armGrace(Coord, GRACE_TRACK))
    /\ UNCHANGED <<rev, configRef, watchVars, mounted, sessionState, stream, avatarRef, isVoiceChatRef,
                   keepAliveIntervalRef, keepAlives, startInFlight, stopInFlight,
                   voiceStartInFlight, body, lastResetLog, startTask, resumeTask, unmountStop,
                   notGW>>

\* onplaying / onPlaying: the video element plays
VideoPlaying_GW ==
    /\ rev = "GW"
    /\ mounted
    /\ stream
    /\ SetCoord(cancelPendingHardReset(Coord))
    /\ UNCHANGED <<rev, configRef, watchVars, mounted, sessionState, stream, avatarRef, isVoiceChatRef,
                   keepAliveIntervalRef, keepAlives, startInFlight, stopInFlight,
                   voicePausedRef, voiceStartInFlight, body, lastResetLog, startTask,
                   resumeTask, unmountStop, notGW>>

\* the grace timer's callback
GraceTimerFires_GW ==
    /\ rev = "GW"
    /\ \E t \in timers :
         /\ t.kind = "grace"
         /\ \E j \in Jitter(JITTER_GW) :
              LET c0 == [Coord EXCEPT !.ref.graceTimer = 0,
                                      !.tbl = timers \ {t}]
                  c1 == hardResetWithBackoff_GW(c0, j)
              IN  Capped(c1) /\ SetCoord(c1)
    /\ UNCHANGED <<rev, configRef, watchVars, mounted, sessionState, stream, avatarRef, isVoiceChatRef,
                   keepAliveIntervalRef, keepAlives, startInFlight, stopInFlight,
                   voicePausedRef, voiceStartInFlight, body, lastResetLog, startTask,
                   resumeTask, unmountStop, notGW>>


\* safeStop up to its await: [pc of the caller, stopInFlight]
safeStop_alwaysStops(inFlight, state) ==
    IF inFlight THEN [pc |-> "settle", sif |-> inFlight]
    ELSE [pc |-> "stop", sif |-> TRUE]

safeStop(inFlight, state) ==
    IF inFlight THEN [pc |-> "settle", sif |-> inFlight]
    ELSE IF state = "CONNECTED" THEN [pc |-> "stop", sif |-> TRUE]
    ELSE [pc |-> "settle", sif |-> FALSE]

\* the catch and finally blocks of the timer callback
bodyFails_GW(c, j) ==
    [hardResetWithBackoff_GW(c, j) EXCEPT !.rif = FALSE]

\* the end of the try block, then the finally block
bodySucceeds_GW(c) ==
    [c EXCEPT !.ref.attempts = 0, !.rif = FALSE]

\* the back-off timer's callback, up to the first await
BackoffTimerFires_GW ==
    /\ rev = "GW"
    /\ Executing # Slots
    /\ \E t \in timers :
         /\ t.kind = "backoff"
         /\ SetCoord([Coord EXCEPT !.ref.timer = 0, !.tbl = timers \ {t}])
         /\ LET r == safeStop(stopInFlight, sessionState)
            IN  /\ stopInFlight' = r.sif
                /\ body' = [body EXCEPT ![FreeSlot] =
                              [IdleBody EXCEPT !.pc = r.pc, !.attempt = t.attempt]]
    /\ UNCHANGED <<lastResetLog, rev, configRef, watchVars, mounted, sessionState, stream, avatarRef, isVoiceChatRef,
                   keepAliveIntervalRef, keepAlives, startInFlight, voicePausedRef,
                   voiceStartInFlight, startTask, resumeTask, unmountStop, notGW>>

\* stopAvatar() settles inside safeStop; a rejection is swallowed
BodyStopReturns_GW(s) ==
    /\ rev = "GW"
    /\ body[s].pc = "stop"
    /\ \E o \in StopOutcomes :
         /\ sessionState' = HookAfterStop(o)
         /\ stream' = IF o = "resolve" THEN FALSE ELSE stream
    /\ stopInFlight' = FALSE
    /\ BodyGoes(s, "settle")
    /\ UNCHANGED <<rev, configRef, watchVars, mounted, avatarRef, isVoiceChatRef, keepAliveIntervalRef, keepAlives,
                   reconnectRef, timers, resetInFlight, startInFlight,
                   voicePausedRef, voiceStartInFlight, startTask, resumeTask,
                   unmountStop, notGW>>

\* the 1200 ms settle delay elapses and the token is requested
BodySettleElapses_GW(s) ==
    /\ rev = "GW"
    /\ body[s].pc = "settle"
    /\ BodyGoes(s, "fetch")
    /\ UNCHANGED <<rev, configRef, watchVars, mounted, sessionState, stream, avatarRef, isVoiceChatRef,
                   keepAliveIntervalRef, keepAlives, reconnectRef, timers, resetInFlight,
                   startInFlight, stopInFlight, voicePausedRef,
                   voiceStartInFlight, startTask, resumeTask, unmountStop, notGW>>

\* after safeStart has returned: maybeResumeVoice, then the end of the callback
BodyAfterStart_GW(s, healthy) ==
    IF resumeCalls(healthy)
    THEN /\ voiceStartInFlight' = TRUE
         /\ BodyGoes(s, "voice")
         /\ UNCHANGED <<reconnectRef, timers, resetInFlight>>
    ELSE /\ SetCoord(bodySucceeds_GW(Coord))
         /\ BodyEnds(s, "done")
         /\ UNCHANGED voiceStartInFlight

\* the token fetch settles: initAvatar, setupAvatarEventHandlers, safeStart
BodyFetchReturns_GW(s) ==
    /\ rev = "GW"
    /\ body[s].pc = "fetch"
    /\ \E o \in FetchOutcomes :
         LET token == fetchAccessToken_GW(o)
         IN  IF token = "throw"
             THEN /\ \E j \in Jitter(JITTER_GW) :
                       LET c == bodyFails_GW(Coord, j)
                       IN  Capped(c) /\ SetCoord(c)
                  /\ BodyEnds(s, "failed")
                  /\ UNCHANGED <<sessionState, avatarRef, startInFlight,
                                 voiceStartInFlight>>
             ELSE /\ avatarRef' = 1
                  /\ IF startInFlight
                     THEN /\ BodyAfterStart_GW(s, isHealthy)
                          /\ UNCHANGED <<sessionState, startInFlight>>
                     ELSE /\ startInFlight' = TRUE
                          /\ sessionState' = "CONNECTING"
                          /\ body' = [body EXCEPT ![s].pc = "start", ![s].token = token,
                                                  ![s].idleTimeout = extendedConfig(configRef)]
                          /\ UNCHANGED lastResetLog
                          /\ UNCHANGED <<reconnectRef, timers, resetInFlight,
                                         voiceStartInFlight>>
    /\ UNCHANGED <<rev, configRef, watchVars, mounted, stream, isVoiceChatRef, keepAliveIntervalRef, keepAlives,
                   stopInFlight, voicePausedRef, startTask, resumeTask,
                   unmountStop, notGW>>

\* startAvatar(cfg) settles inside safeStart
BodyStartReturns_GW(s) ==
    /\ rev = "GW"
    /\ body[s].pc = "start"
    /\ startInFlight' = FALSE
    /\ \E o \in StartOutcomes(body[s].token) :
         /\ sessionState' = HookAfterStart(o).state
         /\ stream' = HookAfterStart(o).stream
         /\ IF o = "resolve"
            THEN BodyAfterStart_GW(s, TRUE)
            ELSE /\ \E j \in Jitter(JITTER_GW) :
                      LET c == bodyFails_GW(Coord, j)
                      IN  Capped(c) /\ SetCoord(c)
                 /\ BodyEnds(s, "failed")
                 /\ UNCHANGED voiceStartInFlight
    /\ UNCHANGED <<rev, configRef, watchVars, mounted, avatarRef, isVoiceChatRef, keepAliveIntervalRef, keepAlives,
                   stopInFlight, voicePausedRef, startTask, resumeTask,
                   unmountStop, notGW>>

\* startVoiceChat() settles inside the callback's maybeResumeVoice
BodyVoiceReturns_GW(s) ==
    /\ rev = "GW"
    /\ body[s].pc = "voice"
    /\ \E o \in VoiceOutcomes :
         voicePausedRef' = IF o = "resolve" THEN FALSE ELSE voicePausedRef
    /\ voiceStartInFlight' = FALSE
    /\ SetCoord(bodySucceeds_GW(Coord))
    /\ BodyEnds(s, "done")
    /\ UNCHANGED <<rev, configRef, watchVars, mounted, sessionState, stream, avatarRef, isVoiceChatRef,
                   keepAliveIntervalRef, keepAlives, startInFlight, stopInFlight, startTask,
                   resumeTask, unmountStop, notGW>>


\* startSessionV2(isVoiceChat), up to the token fetch; the start buttons are
\* rendered only while the session is inactive
startSessionV2_GW(isVoiceChat) ==
    /\ rev = "GW"
    /\ mounted
    /\ sessionState = "INACTIVE"
    /\ startTask.pc = "idle"
    /\ isVoiceChatRef' = isVoiceChat
    /\ startTask' = [IdleStart EXCEPT !.pc = "fetch", !.voice = isVoiceChat]
    /\ UNCHANGED <<rev, configRef, watchVars, mounted, sessionState, stream, avatarRef,
                   keepAliveIntervalRef, keepAlives, reconnectRef, timers, resetInFlight,
                   startInFlight, stopInFlight, voicePausedRef,
                   voiceStartInFlight, body, lastResetLog, resumeTask, unmountStop, notGW>>

\* startSessionV2 after its start call has returned: keepalive, then voice
StartAfterStart(healthy) ==
    /\ SetKeepAlive(armKeepAlive(KeepAlive))
    /\ startTask' = IF startTask.voice /\ healthy
                    THEN [startTask EXCEPT !.pc = "voice"]
                    ELSE IdleStart

StartFetchReturns_GW ==
    /\ rev = "GW"
    /\ startTask.pc = "fetch"
    /\ \E o \in FetchOutcomes :
         LET token == fetchAccessToken_GW(o)
         IN  IF token = "throw"
             THEN /\ startTask' = IdleStart
                  /\ UNCHANGED <<sessionState, avatarRef, startInFlight,
                                 keepAliveIntervalRef, keepAlives>>
             ELSE /\ avatarRef' = 1
                  /\ IF startInFlight
                     THEN /\ StartAfterStart(isHealthy)
                          /\ UNCHANGED <<sessionState, startInFlight>>
                     ELSE /\ startInFlight' = TRUE
                          /\ sessionState' = "CONNECTING"
                          /\ startTask' = [startTask EXCEPT !.pc = "start",
                                                            !.token = token,
                                                            !.idleTimeout = extendedConfig(configRef)]
                          /\ UNCHANGED <<keepAliveIntervalRef, keepAlives>>
    /\ UNCHANGED <<rev, configRef, watchVars, mounted, stream, isVoiceChatRef, reconnectRef, timers,
                   resetInFlight, stopInFlight, voicePausedRef,
                   voiceStartInFlight, body, lastResetLog, resumeTask, unmountStop, notGW>>

StartStartReturns_GW ==
    /\ rev = "GW"
    /\ startTask.pc = "start"
    /\ startInFlight' = FALSE
    /\ \E o \in StartOutcomes(startTask.token) :
         /\ sessionState' = HookAfterStart(o).state
         /\ stream' = HookAfterStart(o).stream
         /\ IF o = "resolve"
            THEN StartAfterStart(TRUE)
            ELSE startTask' = IdleStart /\ UNCHANGED <<keepAliveIntervalRef, keepAlives>>
    /\ UNCHANGED <<rev, configRef, watchVars, mounted, avatarRef, isVoiceChatRef, reconnectRef, timers,
                   resetInFlight, stopInFlight, voicePausedRef,
                   voiceStartInFlight, body, lastResetLog, resumeTask, unmountStop, notGW>>

StartVoiceReturns_GW ==
    /\ rev = "GW"
    /\ startTask.pc = "voice"
    /\ \E o \in VoiceOutcomes :
         voicePausedRef' = IF o = "resolve" THEN FALSE ELSE voicePausedRef
    /\ startTask' = IdleStart
    /\ UNCHANGED <<rev, configRef, watchVars, mounted, sessionState, stream, avatarRef, isVoiceChatRef,
                   keepAliveIntervalRef, keepAlives, reconnectRef, timers, resetInFlight,
                   startInFlight, stopInFlight, voiceStartInFlight, body, lastResetLog,
                   resumeTask, unmountStop, notGW>>

\* useUnmount
Unmount_GW ==
    /\ rev = "GW"
    /\ mounted
    /\ mounted' = FALSE
    /\ SetKeepAlive(disarmKeepAlive(KeepAlive))
    /\ LET t1 == IF reconnectRef.timer # 0
                 THEN ClearTimeout(timers, reconnectRef.timer) ELSE timers
           t2 == IF reconnectRef.graceTimer # 0
                 THEN ClearTimeout(t1, reconnectRef.graceTimer) ELSE t1
       IN  timers' = t2
    /\ reconnectRef' = [attempts |-> 0, timer |-> 0, graceTimer |-> 0]
    /\ avatarRef' = 0
    /\ unmountStop' = TRUE
    /\ UNCHANGED <<rev, configRef, watchVars, sessionState, stream, isVoiceChatRef, resetInFlight,
                   startInFlight, stopInFlight, voicePausedRef,
                   voiceStartInFlight, body, lastResetLog, startTask, resumeTask,
                   notGW>>

\* the stopAvatar() call of useUnmount settles
UnmountStopReturns ==
    /\ unmountStop
    /\ unmountStop' = FALSE
    /\ \E o \in StopOutcomes :
         /\ sessionState' = HookAfterStop(o)
         /\ stream' = IF o = "resolve" THEN FALSE ELSE stream
    /\ UNCHANGED <<rev, configRef, watchVars, mounted, avatarRef, isVoiceChatRef, keepAliveIntervalRef, keepAlives,
                   reconnectRef, timers, resetInFlight, startInFlight,
                   stopInFlight, voicePausedRef, voiceStartInFlight, body, lastResetLog,
                   startTask, resumeTask, softRestarts, recycleTask, online>>

NextGW ==
    \/ StreamReady_GW
    \/ ResumeVoiceReturns_GW
    \/ StreamDisconnected_GW
    \/ TrackProblem_GW
    \/ VideoPlaying_GW
    \/ GraceTimerFires_GW
    \/ BackoffTimerFires_GW
    \/ \E s \in Slots : BodyStopReturns_GW(s)
    \/ \E s \in Slots : BodySettleElapses_GW(s)
    \/ \E s \in Slots : BodyFetchReturns_GW(s)
    \/ \E s \in Slots : BodyStartReturns_GW(s)
    \/ \E s \in Slots : BodyVoiceReturns_GW(s)
    \/ \E v \in BOOLEAN : startSessionV2_GW(v)
    \/ StartFetchReturns_GW
    \/ StartStartReturns_GW
    \/ StartVoiceReturns_GW
    \/ Unmount_GW
    \/ UnmountStopReturns

SpecGW == InitGW /\ [][NextGW]_vars



(***************************************************************************)
(* IA: the back-off revision, src/components/InteractiveAvatar.tsx.        *)
(* The recycle revision RC (src/unnamed/part_002 lines 42-310) repeats its *)
(* softRestartTracks, event handlers, startSessionV2, online/offline       *)
(* effect and useUnmount word for word, so the actions below run under     *)
(* both; the two differ in fetchAccessToken and in the silent recycle.     *)
(***************************************************************************)
InitIA == rev = "IA" /\ InitCommon

\* state the back-off and recycle revisions have no code for
notIA == <<resetInFlight, startInFlight, stopInFlight, voicePausedRef,
           voiceStartInFlight, resumeTask>>

\* fetchAccessToken: the status is not inspected, only a transport failure throws
fetchAccessToken_IA(outcome) ==
    IF outcome = "neterr" THEN "throw" ELSE TokenOf(outcome)

\* fetchAccessToken of the recycle revision: a response that is not ok throws
fetchAccessToken_RC(outcome) ==
    IF outcome = "ok" THEN "good" ELSE "throw"

fetchAccessToken(outcome) ==
    IF rev = "RC" THEN fetchAccessToken_RC(outcome) ELSE fetchAccessToken_IA(outcome)

\* a hardResetWithBackoff without the test of the pending timer
hardResetWithBackoff_IA_unguarded(c, j) ==
    LET attempt == c.ref.attempts
        delay == Min(CEILING_IA, BASE_DELAY * Pow2(attempt)) + j
        h == NewHandle(c.tbl)
    IN  [c EXCEPT !.ref.attempts = attempt + 1,
                  !.ref.timer = h,
                  !.tbl = c.tbl \cup {BackoffTimer(h, attempt, delay)}]

\* a hardResetWithBackoff that gives up after three attempts
hardResetWithBackoff_IA_givesUp(c, j) ==
    IF c.ref.timer # 0 \/ c.ref.attempts >= 3 THEN c
    ELSE LET attempt == c.ref.attempts
             delay == Min(CEILING_IA, BASE_DELAY * Pow2(attempt)) + j
             h == NewHandle(c.tbl)
         IN  [c EXCEPT !.ref.attempts = attempt + 1,
                       !.ref.timer = h,
                       !.tbl = c.tbl \cup {BackoffTimer(h, attempt, delay)}]

\* a hardResetWithBackoff whose delay has no ceiling
hardResetWithBackoff_IA_noCeiling(c, j) ==
    IF c.ref.timer # 0 THEN c
    ELSE LET attempt == c.ref.attempts
             delay == BASE_DELAY * Pow2(attempt) + j
             h == NewHandle(c.tbl)
         IN  [c EXCEPT !.ref.attempts = attempt + 1,
                       !.ref.timer = h,
                       !.tbl = c.tbl \cup {BackoffTimer(h, attempt, delay)}]

\* hardResetWithBackoff up to the setTimeout call; j is the jitter drawn
hardResetWithBackoff_IA(c, j) ==
    IF c.ref.timer # 0 THEN c
    ELSE LET attempt == c.ref.attempts
             delay == Min(CEILING_IA, BASE_DELAY * Pow2(attempt)) + j
             h == NewHandle(c.tbl)
         IN  [c EXCEPT !.ref.attempts = attempt + 1,
                       !.ref.timer = h,
                       !.tbl = c.tbl \cup {BackoffTimer(h, attempt, delay)}]

\* a hardResetWithBackoff that waits the base delay on every attempt
hardResetWithBackoff_RC_flatDelay(c, j) ==
    IF c.ref.timer # 0 THEN c
    ELSE LET attempt == c.ref.attempts
             delay == Min(CEILING_IA, BASE_DELAY) + j
             h == NewHandle(c.tbl)
         IN  [c EXCEPT !.ref.attempts = attempt + 1,
                       !.ref.timer = h,
                       !.tbl = c.tbl \cup {BackoffTimer(h, attempt, delay)}]

\* hardResetWithBackoff of the recycle revision
hardResetWithBackoff_RC(c, j) ==
    IF c.ref.timer # 0 THEN c
    ELSE LET attempt == c.ref.attempts
             delay == Min(CEILING_IA, BASE_DELAY * Pow2(attempt)) + j
             h == NewHandle(c.tbl)
         IN  [c EXCEPT !.ref.attempts = attempt + 1,
                       !.ref.timer = h,
                       !.tbl = c.tbl \cup {BackoffTimer(h, attempt, delay)}]

hardResetWithBackoff(c, j) ==
    IF rev = "RC" THEN hardResetWithBackoff_RC(c, j) ELSE hardResetWithBackoff_IA(c, j)

\* a call of hardResetWithBackoff as a whole handler step
RequestHardReset(c) ==
    \E j \in Jitter(JITTER_IA) :
        LET c1 == hardResetWithBackoff(c, j)
        IN  Capped(c1) /\ SetCoord(c1)

\* STREAM_READY handler (a log line); the hook marks the session connected
StreamReady_IA ==
    /\ rev \in {"IA", "RC"}
    /\ sessionState # "INACTIVE"
    /\ sessionState' = "CONNECTED"
    /\ stream' = TRUE
    /\ UNCHANGED <<rev, configRef, watchVars, mounted, avatarRef, isVoiceChatRef, keepAliveIntervalRef, keepAlives,
                   reconnectRef, timers, body, lastResetLog, startTask, unmountStop,
                   softRestarts, recycleTask, online, notIA>>

\* STREAM_DISCONNECTED handler up to the await of softRestartTracks, which
\* returns at once unless the session is healthy
StreamDisconnected_IA ==
    /\ rev \in {"IA", "RC"}
    /\ sessionState # "INACTIVE"
    /\ IF isHealthy
       THEN /\ softRestarts < MaxSoft
            /\ softRestarts' = softRestarts + 1
            /\ UNCHANGED <<reconnectRef, timers, resetInFlight>>
       ELSE /\ RequestHardReset(Coord)
            /\ UNCHANGED softRestarts
    /\ \E down \in BOOLEAN :
         /\ sessionState' = IF down THEN "INACTIVE" ELSE sessionState
         /\ stream' = IF down THEN FALSE ELSE stream
    /\ UNCHANGED <<rev, configRef, watchVars, mounted, avatarRef, isVoiceChatRef, keepAliveIntervalRef, keepAlives,
                   body, lastResetLog, startTask, unmountStop, recycleTask, online,
                   startInFlight, stopInFlight, voicePausedRef,
                   voiceStartInFlight, resumeTask>>

\* the startVoiceChat() of softRestartTracks settles (a rejection is logged);
\* the handler's finally block asks for the hard reset
SoftRestartReturns_IA ==
    /\ rev \in {"IA", "RC"}
    /\ softRestarts > 0
    /\ softRestarts' = softRestarts - 1
    /\ RequestHardReset(Coord)
    /\ UNCHANGED <<rev, configRef, watchVars, mounted, sessionState, stream, avatarRef, isVoiceChatRef,
                   keepAliveIntervalRef, keepAlives, body, lastResetLog, startTask, unmountStop,
                   recycleTask, online, startInFlight, stopInFlight,
                   voicePausedRef, voiceStartInFlight, resumeTask>>

\* the browser goes offline: onOffline logs
Offline_IA ==
    /\ rev \in {"IA", "RC"}
    /\ online
    /\ online' = FALSE
    /\ UNCHANGED <<rev, configRef, watchVars, mounted, sessionState, stream, avatarRef, isVoiceChatRef,
                   keepAliveIntervalRef, keepAlives, reconnectRef, timers, body, lastResetLog, startTask,
                   unmountStop, softRestarts, recycleTask, notIA>>

\* the browser comes back online: onOnline, while the listener is installed
Online_IA ==
    /\ rev \in {"IA", "RC"}
    /\ ~online
    /\ online' = TRUE
    /\ IF mounted
       THEN RequestHardReset(Coord)
       ELSE UNCHANGED <<reconnectRef, timers, resetInFlight>>
    /\ UNCHANGED <<rev, configRef, watchVars, mounted, sessionState, stream, avatarRef, isVoiceChatRef,
                   keepAliveIntervalRef, keepAlives, body, lastResetLog, startTask, unmountStop,
                   softRestarts, recycleTask, startInFlight, stopInFlight,
                   voicePausedRef, voiceStartInFlight, resumeTask>>

\* the back-off timer's callback, up to the await of stopAvatar()
BackoffTimerFires_IA ==
    /\ rev \in {"IA", "RC"}
    /\ Executing # Slots
    /\ \E t \in timers :
         /\ t.kind = "backoff"
         /\ SetCoord([Coord EXCEPT !.ref.timer = 0, !.tbl = timers \ {t}])
         /\ body' = [body EXCEPT ![FreeSlot] =
                       [IdleBody EXCEPT !.pc = "stop", !.attempt = t.attempt]]
    /\ UNCHANGED <<lastResetLog, rev, configRef, watchVars, mounted, sessionState, stream, avatarRef, isVoiceChatRef,
                   keepAliveIntervalRef, keepAlives, startTask, unmountStop, softRestarts,
                   recycleTask, online, startInFlight, stopInFlight,
                   voicePausedRef, voiceStartInFlight, resumeTask>>

\* the catch block of the timer callback
bodyFails_IA(s) ==
    /\ RequestHardReset(Coord)
    /\ BodyEnds(s, "failed")

\* stopAvatar() settles; a rejection is caught by the callback's try
BodyStopReturns_IA(s) ==
    /\ rev \in {"IA", "RC"}
    /\ body[s].pc = "stop"
    /\ \E o \in StopOutcomes :
         /\ sessionState' = HookAfterStop(o)
         /\ stream' = IF o = "resolve" THEN FALSE ELSE stream
         /\ IF o = "resolve"
            THEN /\ avatarRef' = 0
                 /\ BodyGoes(s, "settle")
                 /\ UNCHANGED <<reconnectRef, timers, resetInFlight>>
            ELSE /\ bodyFails_IA(s)
                 /\ UNCHANGED avatarRef
    /\ UNCHANGED <<rev, configRef, watchVars, mounted, isVoiceChatRef, keepAliveIntervalRef, keepAlives, startTask,
                   unmountStop, softRestarts, recycleTask, online,
                   startInFlight, stopInFlight, voicePausedRef,
                   voiceStartInFlight, resumeTask>>

\* the 600 ms settle delay elapses and the token is requested
BodySettleElapses_IA(s) ==
    /\ rev \in {"IA", "RC"}
    /\ body[s].pc = "settle"
    /\ BodyGoes(s, "fetch")
    /\ UNCHANGED <<rev, configRef, watchVars, mounted, sessionState, stream, avatarRef, isVoiceChatRef,
                   keepAliveIntervalRef, keepAlives, reconnectRef, timers, startTask,
                   unmountStop, softRestarts, recycleTask, online, notIA>>

\* the token fetch settles: initAvatar, setupAvatarEventHandlers, startAvatar
BodyFetchReturns_IA(s) ==
    /\ rev \in {"IA", "RC"}
    /\ body[s].pc = "fetch"
    /\ \E o \in FetchOutcomes :
         LET token == fetchAccessToken(o)
         IN  IF token = "throw"
             THEN /\ bodyFails_IA(s)
                  /\ UNCHANGED <<sessionState, avatarRef>>
             ELSE /\ avatarRef' = 1
                  /\ sessionState' = "CONNECTING"
                  /\ body' = [body EXCEPT ![s].pc = "start", ![s].token = token,
                                          ![s].idleTimeout = extendedConfig(configRef)]
                  /\ UNCHANGED lastResetLog
                  /\ UNCHANGED <<reconnectRef, timers, resetInFlight>>
    /\ UNCHANGED <<rev, configRef, watchVars, mounted, stream, isVoiceChatRef, keepAliveIntervalRef, keepAlives,
                   startTask, unmountStop, softRestarts, recycleTask, online,
                   startInFlight, stopInFlight, voicePausedRef,
                   voiceStartInFlight, resumeTask>>

\* the end of the try block, on the coordinator record
resetAttempts(c) == [c EXCEPT !.ref.attempts = 0]

\* the callback reaches the end of its try block
bodySucceeds_IA(s) ==
    /\ SetCoord(resetAttempts(Coord))
    /\ BodyEnds(s, "done")

\* a hard-reset callback that never restarts the voice chat
voiceRestarts_never(selected, state) == FALSE

\* if (isVoiceChatRef.current && isHealthy()), once startAvatar has resolved
voiceRestarts(selected, state) == selected /\ state = "CONNECTED"

\* startAvatar(extendedConfig) settles
BodyStartReturns_IA(s) ==
    /\ rev \in {"IA", "RC"}
    /\ body[s].pc = "start"
    /\ \E o \in StartOutcomes(body[s].token) :
         /\ sessionState' = HookAfterStart(o).state
         /\ stream' = HookAfterStart(o).stream
         /\ IF o = "resolve"
            THEN IF voiceRestarts(isVoiceChatRef, HookAfterStart(o).state)
                 THEN /\ BodyGoes(s, "voice")
                      /\ UNCHANGED <<reconnectRef, timers, resetInFlight>>
                 ELSE bodySucceeds_IA(s)
            ELSE bodyFails_IA(s)
    /\ UNCHANGED <<rev, configRef, watchVars, mounted, avatarRef, isVoiceChatRef, keepAliveIntervalRef, keepAlives,
                   startTask, unmountStop, softRestarts, recycleTask, online,
                   startInFlight, stopInFlight, voicePausedRef,
                   voiceStartInFlight, resumeTask>>

\* startVoiceChat() settles inside the callback
BodyVoiceReturns_IA(s) ==
    /\ rev \in {"IA", "RC"}
    /\ body[s].pc = "voice"
    /\ \E o \in VoiceOutcomes :
         IF o = "resolve" THEN bodySucceeds_IA(s) ELSE bodyFails_IA(s)
    /\ UNCHANGED <<rev, configRef, watchVars, mounted, sessionState, stream, avatarRef, isVoiceChatRef,
                   keepAliveIntervalRef, keepAlives, startTask, unmountStop, softRestarts,
                   recycleTask, online, startInFlight, stopInFlight,
                   voicePausedRef, voiceStartInFlight, resumeTask>>


\* startSessionV2(isVoiceChat), up to the token fetch; the start buttons are
\* rendered only while the session is inactive
startSessionV2_IA(isVoiceChat) ==
    /\ rev \in {"IA", "RC"}
    /\ mounted
    /\ sessionState = "INACTIVE"
    /\ startTask.pc = "idle"
    /\ isVoiceChatRef' = isVoiceChat
    /\ startTask' = [IdleStart EXCEPT !.pc = "fetch", !.voice = isVoiceChat]
    /\ UNCHANGED <<rev, configRef, watchVars, mounted, sessionState, stream, avatarRef,
                   keepAliveIntervalRef, keepAlives, reconnectRef, timers, body, lastResetLog,
                   unmountStop, softRestarts, recycleTask, online, notIA>>

StartFetchReturns_IA ==
    /\ rev \in {"IA", "RC"}
    /\ startTask.pc = "fetch"
    /\ \E o \in FetchOutcomes :
         LET token == fetchAccessToken(o)
         IN  IF token = "throw"
             THEN /\ startTask' = IdleStart
                  /\ UNCHANGED <<sessionState, avatarRef>>
             ELSE /\ avatarRef' = 1
                  /\ sessionState' = "CONNECTING"
                  /\ startTask' = [startTask EXCEPT !.pc = "start", !.token = token,
                                                    !.idleTimeout = extendedConfig(configRef)]
    /\ UNCHANGED <<rev, configRef, watchVars, mounted, stream, isVoiceChatRef, keepAliveIntervalRef, keepAlives,
                   reconnectRef, timers, body, lastResetLog, unmountStop, softRestarts,
                   recycleTask, online, notIA>>

StartStartReturns_IA ==
    /\ rev \in {"IA", "RC"}
    /\ startTask.pc = "start"
    /\ \E o \in StartOutcomes(startTask.token) :
         /\ sessionState' = HookAfterStart(o).state
         /\ stream' = HookAfterStart(o).stream
         /\ IF o = "resolve"
            THEN StartAfterStart(TRUE)
            ELSE startTask' = IdleStart /\ UNCHANGED <<keepAliveIntervalRef, keepAlives>>
    /\ UNCHANGED <<rev, configRef, watchVars, mounted, avatarRef, isVoiceChatRef, reconnectRef, timers,
                   body, lastResetLog, unmountStop, softRestarts, recycleTask, online, notIA>>

StartVoiceReturns_IA ==
    /\ rev \in {"IA", "RC"}
    /\ startTask.pc = "voice"
    /\ startTask' = IdleStart
    /\ UNCHANGED <<rev, configRef, watchVars, mounted, sessionState, stream, avatarRef, isVoiceChatRef,
                   keepAliveIntervalRef, keepAlives, reconnectRef, timers, body, lastResetLog,
                   unmountStop, softRestarts, recycleTask, online, notIA>>

\* useUnmount
Unmount_IA ==
    /\ rev \in {"IA", "RC"}
    /\ mounted
    /\ mounted' = FALSE
    /\ SetKeepAlive(disarmKeepAlive(KeepAlive))
    /\ timers' = IF reconnectRef.timer # 0
                 THEN ClearTimeout(timers, reconnectRef.timer) ELSE timers
    /\ reconnectRef' = [reconnectRef EXCEPT !.timer = 0, !.attempts = 0]
    /\ avatarRef' = 0
    /\ unmountStop' = TRUE
    /\ UNCHANGED <<rev, configRef, watchVars, sessionState, stream, isVoiceChatRef, body, lastResetLog, startTask,
                   softRestarts, recycleTask, online, notIA>>

NextIA ==
    \/ StreamReady_IA
    \/ StreamDisconnected_IA
    \/ SoftRestartReturns_IA
    \/ Offline_IA
    \/ Online_IA
    \/ BackoffTimerFires_IA
    \/ \E s \in Slots : BodyStopReturns_IA(s)
    \/ \E s \in Slots : BodySettleElapses_IA(s)
    \/ \E s \in Slots : BodyFetchReturns_IA(s)
    \/ \E s \in Slots : BodyStartReturns_IA(s)
    \/ \E s \in Slots : BodyVoiceReturns_IA(s)
    \/ \E v \in BOOLEAN : startSessionV2_IA(v)
    \/ StartFetchReturns_IA
    \/ StartStartReturns_IA
    \/ StartVoiceReturns_IA
    \/ Unmount_IA
    \/ UnmountStopReturns

SpecIA == InitIA /\ [][NextIA]_vars

(***************************************************************************)
(* RC: the recycle revision, src/unnamed/part_002 lines 42-310: the        *)
(* back-off revision plus the silent periodic recycle.                     *)
(***************************************************************************)
InitRC == rev = "RC" /\ InitCommon

\* a catch block of the recycle callback that only logs
recycleFails_logsOnly ==
    /\ UNCHANGED <<reconnectRef, timers, resetInFlight>>
    /\ recycleTask' = IdleRecycle

\* the catch block of the recycle callback
recycleFails ==
    /\ RequestHardReset(Coord)
    /\ recycleTask' = IdleRecycle

\* the 10-minute interval fires with the browser online and a session handle
\* (otherwise the callback returns at once), up to the await of stopAvatar()
RecycleTick_RC ==
    /\ rev = "RC"
    /\ mounted
    /\ recycleTask.pc = "idle"
    /\ online
    /\ avatarRef # 0
    /\ recycleTask' = [IdleRecycle EXCEPT !.pc = "stop"]
    /\ UNCHANGED <<rev, configRef, watchVars, mounted, sessionState, stream, avatarRef, isVoiceChatRef,
                   keepAliveIntervalRef, keepAlives, reconnectRef, timers, body, lastResetLog, startTask,
                   unmountStop, softRestarts, online, notIA>>

RecycleStopReturns_RC ==
    /\ rev = "RC"
    /\ recycleTask.pc = "stop"
    /\ \E o \in StopOutcomes :
         /\ sessionState' = HookAfterStop(o)
         /\ stream' = IF o = "resolve" THEN FALSE ELSE stream
         /\ IF o = "resolve"
            THEN /\ avatarRef' = 0
                 /\ recycleTask' = [recycleTask EXCEPT !.pc = "settle"]
                 /\ UNCHANGED <<reconnectRef, timers, resetInFlight>>
            ELSE /\ recycleFails
                 /\ UNCHANGED avatarRef
    /\ UNCHANGED <<rev, configRef, watchVars, mounted, isVoiceChatRef, keepAliveIntervalRef, keepAlives, body, lastResetLog,
                   startTask, unmountStop, softRestarts, online, startInFlight,
                   stopInFlight, voicePausedRef, voiceStartInFlight, resumeTask>>

\* the 500 ms settle delay elapses and the token is requested
RecycleSettleElapses_RC ==
    /\ rev = "RC"
    /\ recycleTask.pc = "settle"
    /\ recycleTask' = [recycleTask EXCEPT !.pc = "fetch"]
    /\ UNCHANGED <<rev, configRef, watchVars, mounted, sessionState, stream, avatarRef, isVoiceChatRef,
                   keepAliveIntervalRef, keepAlives, reconnectRef, timers, body, lastResetLog, startTask,
                   unmountStop, softRestarts, online, notIA>>

RecycleFetchReturns_RC ==
    /\ rev = "RC"
    /\ recycleTask.pc = "fetch"
    /\ \E o \in FetchOutcomes :
         LET token == fetchAccessToken_RC(o)
         IN  IF token = "throw"
             THEN /\ recycleFails
                  /\ UNCHANGED <<sessionState, avatarRef>>
             ELSE /\ avatarRef' = 1
                  /\ sessionState' = "CONNECTING"
                  /\ recycleTask' = [pc |-> "start", token |-> token,
                                     idleTimeout |-> recycleConfig(configRef)]
                  /\ UNCHANGED <<reconnectRef, timers, resetInFlight>>
    /\ UNCHANGED <<rev, configRef, watchVars, mounted, stream, isVoiceChatRef, keepAliveIntervalRef, keepAlives,
                   body, lastResetLog, startTask, unmountStop, softRestarts, online,
                   startInFlight, stopInFlight, voicePausedRef,
                   voiceStartInFlight, resumeTask>>

RecycleStartReturns_RC ==
    /\ rev = "RC"
    /\ recycleTask.pc = "start"
    /\ \E o \in StartOutcomes(recycleTask.token) :
         /\ sessionState' = HookAfterStart(o).state
         /\ stream' = HookAfterStart(o).stream
         /\ IF o = "resolve"
            THEN /\ recycleTask' = IF isVoiceChatRef
                                   THEN [recycleTask EXCEPT !.pc = "voice"]
                                   ELSE IdleRecycle
                 /\ UNCHANGED <<reconnectRef, timers, resetInFlight>>
            ELSE recycleFails
    /\ UNCHANGED <<rev, configRef, watchVars, mounted, avatarRef, isVoiceChatRef, keepAliveIntervalRef, keepAlives,
                   body, lastResetLog, startTask, unmountStop, softRestarts, online,
                   startInFlight, stopInFlight, voicePausedRef,
                   voiceStartInFlight, resumeTask>>

RecycleVoiceSettles_RC(o) ==
    /\ rev = "RC"
    /\ recycleTask.pc = "voice"
    /\ IF o = "resolve"
       THEN /\ recycleTask' = IdleRecycle
            /\ UNCHANGED <<reconnectRef, timers, resetInFlight>>
       ELSE recycleFails
    /\ UNCHANGED <<rev, configRef, watchVars, mounted, sessionState, stream, avatarRef, isVoiceChatRef,
                   keepAliveIntervalRef, keepAlives, body, lastResetLog, startTask, unmountStop,
                   softRestarts, online, startInFlight, stopInFlight,
                   voicePausedRef, voiceStartInFlight, resumeTask>>

RecycleVoiceReturns_RC == \E o \in VoiceOutcomes : RecycleVoiceSettles_RC(o)

NextRC ==
    \/ NextIA
    \/ RecycleTick_RC
    \/ RecycleStopReturns_RC
    \/ RecycleSettleElapses_RC
    \/ RecycleFetchReturns_RC
    \/ RecycleStartReturns_RC
    \/ RecycleVoiceReturns_RC

SpecRC == InitRC /\ [][NextRC]_vars

(***************************************************************************)
(* Properties.                                                             *)
(***************************************************************************)
BackoffTimers == {t \in timers : t.kind = "backoff"}
GraceTimers == {t \in timers : t.kind = "grace"}

\* every live recovery timer is the one its ref field names
NoOrphanTimers ==
    /\ \A t \in BackoffTimers : reconnectRef.timer = t.h
    /\ \A t \in GraceTimers : reconnectRef.graceTimer = t.h
    /\ reconnectRef.timer # 0 => \E t \in BackoffTimers : t.h = reconnectRef.timer
    /\ reconnectRef.graceTimer # 0 => \E t \in GraceTimers : t.h = reconnectRef.graceTimer

\* the coordinator is Idle with a zero attempt counter
IdleCoord ==
    /\ reconnectRef = [attempts |-> 0, timer |-> 0, graceTimer |-> 0]
    /\ Executing = {}

\* the coordinator is in GraceWait, entered from Idle
GraceWaitFromIdle ==
    /\ reconnectRef.graceTimer # 0
    /\ reconnectRef.timer = 0
    /\ reconnectRef.attempts = 0
    /\ Executing = {}

\* C1: grace-window revision: at most one hard reset is scheduled or
\* executing at any instant: two hard-reset bodies never execute
\* concurrently, at most one back-off timer is live, and no back-off timer is
\* pending while a hard-reset body executes.
C1_SingleFlight ==
    rev = "GW" =>
        /\ Cardinality(Executing) <= 1
        /\ Cardinality(BackoffTimers) <= 1
        /\ Executing # {} => (reconnectRef.timer = 0 /\ BackoffTimers = {})

\* a hard-reset body is executing and a further disruption has armed a grace
\* timer whose firing will request another hard reset
C1_Witness ==
    /\ rev = "GW"
    /\ Executing # {}
    /\ reconnectRef.graceTimer # 0

\* a step in which a hard-reset callback returns through its catch block
BodyFailsStep ==
    \E s \in Slots :
        /\ body[s].pc # "idle"
        /\ body'[s].pc = "idle"
        /\ lastResetLog' = "failed"

\* a step in which a hard-reset callback returns from the end of its try block
BodySucceedsStep ==
    \E s \in Slots :
        /\ body[s].pc # "idle"
        /\ body'[s].pc = "idle"
        /\ lastResetLog' = "done"

\* C3: grace-window revision: whenever a hard-reset body fails a new
\* back-off timer is armed (the coordinator is Scheduled again, never Idle).
C3_RetryAfterFailure ==
    [][(rev = "GW" /\ BodyFailsStep) => reconnectRef'.timer # 0]_vars

\* C4: grace-window revision: in every state in which no back-off timer is
\* pending and no hard-reset body is executing, resetInFlight is false.
C4_FlagReleased ==
    (rev = "GW" /\ reconnectRef.timer = 0 /\ Executing = {}) => ~resetInFlight

\* C5: grace-window revision: with no hard reset scheduled or in flight,
\* when the 4 s grace timer of a STREAM_DISCONNECTED elapses, exactly one
\* hard reset begins: one back-off timer is armed.
C5_GraceElapsesOneReset ==
    [][(/\ rev = "GW"
        /\ reconnectRef.timer = 0
        /\ Executing = {}
        /\ \E t \in GraceTimers : t.delay = GRACE_DISCONNECT
        /\ GraceTimerFires_GW)
       => (/\ reconnectRef'.timer # 0
           /\ Cardinality({t \in timers' : t.kind = "backoff"}) = 1)]_vars

\* C6: grace-window revision: a STREAM_READY or 'playing' event cancels
\* every pending recovery timer and zeroes the attempt counter: afterwards
\* timer and graceTimer are unset, attempts = 0, and no cancelled timer is
\* left in the timer table to run (no live timer escapes the ref fields).
C6_HealthCancelsAll ==
    /\ [](rev = "GW" => NoOrphanTimers)
    /\ [][(StreamReady_GW \/ VideoPlaying_GW) =>
            (/\ reconnectRef' = [attempts |-> 0, timer |-> 0, graceTimer |-> 0]
             /\ \A t \in timers' : t.kind \notin {"backoff", "grace"})]_vars

\* a scheduled hard reset was cancelled by a health confirmation: the flag it
\* took is still set although no timer is pending and no body executes
C6_Witness ==
    /\ rev = "GW"
    /\ mounted
    /\ resetInFlight
    /\ IdleCoord
    /\ timers = {}

\* C7: grace-window revision: from an idle coordinator (attempts = 0, no
\* timer), a STREAM_DISCONNECTED only opens the grace window; while the
\* window is open nothing but the grace timer's firing starts a hard reset
\* or changes the attempt counter; and a STREAM_READY in the window leaves
\* the coordinator idle with no timer left, attempts still 0.
C7_ReadyWithinGrace ==
    [][/\ (StreamDisconnected_GW /\ IdleCoord) => GraceWaitFromIdle'
       /\ (rev = "GW" /\ GraceWaitFromIdle /\ ~GraceTimerFires_GW) =>
             (/\ reconnectRef'.attempts = 0
              /\ reconnectRef'.timer = 0
              /\ Executing' = {})
       /\ (StreamReady_GW /\ GraceWaitFromIdle) =>
             (IdleCoord' /\ timers' = {})]_vars

\* a disconnect paused the voice pump, STREAM_READY then arrived (its
\* maybeResumeVoice is in flight) and the coordinator is idle, no flag taken
C7_Witness ==
    /\ rev = "GW"
    /\ voicePausedRef
    /\ resumeTask = "voice"
    /\ IdleCoord
    /\ ~resetInFlight
    /\ timers = {}


(***************************************************************************)
(* Both back-off formulas under one specification.                         *)
(***************************************************************************)
SpecBO == (InitIA \/ InitGW) /\ [][NextIA \/ NextGW]_vars

\* C2: back-off revision: a hard-reset request that arrives while a
\* hard-reset body is executing is a no-op: no back-off timer is armed while
\* a body executes, and two bodies never execute concurrently.
C2_RequestDuringBodyIsNoOp ==
    (rev = "IA" /\ Executing # {}) =>
        /\ reconnectRef.timer = 0
        /\ BackoffTimers = {}
        /\ Cardinality(Executing) <= 1

\* C8: back-off revision: a STREAM_READY that arrives while a back-off timer
\* is pending cancels that timer and resets the attempt counter to 0.
C8_ReadyCancelsBackoff ==
    [][(rev = "IA" /\ StreamReady_IA /\ reconnectRef.timer # 0) =>
          (/\ reconnectRef'.timer = 0
           /\ reconnectRef'.attempts = 0
           /\ {t \in timers' : t.kind = "backoff"} = {})]_vars

\* a step in which the token fetch of a hard-reset callback scheduled with
\* attempt 0 fails (in the recycle revision a non-2xx answer throws)
FetchFailsStep_RC ==
    /\ rev = "RC"
    /\ \E s \in Slots :
         /\ body[s].pc = "fetch"
         /\ body[s].attempt = 0
         /\ body'[s].pc = "idle"

\* C9 as stated: recycle revision: when the token fetch fails during the
\* hard-reset body scheduled with attempt 0, one retry is scheduled with a
\* delay in [1000, 1300) ms and the attempt counter is 1 afterwards.
C9_RetryDelayAsClaimed ==
    [][FetchFailsStep_RC =>
          (/\ reconnectRef'.attempts = 1
           /\ \E t \in timers' :
                /\ t.kind = "backoff"
                /\ t.h = reconnectRef'.timer
                /\ 1000 <= t.delay /\ t.delay < 1300)]_vars

\* C9 amended: recycle revision: when the token fetch fails during the
\* hard-reset body scheduled with attempt 0 and nothing else has touched the
\* coordinator since that scheduling (attempt counter still 1, no timer
\* pending), exactly one retry is scheduled, its delay lies in [2000, 2300)
\* ms, and the attempt counter is 2 afterwards.
C9_RetryDelay ==
    [][(/\ FetchFailsStep_RC
        /\ reconnectRef.attempts = 1
        /\ reconnectRef.timer = 0) =>
          (/\ reconnectRef'.attempts = 2
           /\ Cardinality({t \in timers' : t.kind = "backoff"}) = 1
           /\ \E t \in timers' :
                /\ t.kind = "backoff"
                /\ t.h = reconnectRef'.timer
                /\ 2000 <= t.delay /\ t.delay < 2300)]_vars

\* the retry of attempt 0 is scheduled: the last callback failed before it
\* built a session (the old one stopped, none constructed), the counter is 2
C9_Witness ==
    /\ rev = "RC"
    /\ lastResetLog = "failed"
    /\ Executing = {}
    /\ avatarRef = 0
    /\ sessionState = "INACTIVE"
    /\ reconnectRef.attempts = 2
    /\ \E t \in BackoffTimers : t.attempt = 1 /\ t.h = reconnectRef.timer

\* the ceiling and the jitter range of the running revision
Ceiling == IF rev = "GW" THEN 20000 ELSE 15000
JitterRange == IF rev = "GW" THEN 500 ELSE 300

\* min(C, 1000 * 2^k), written out
DeterministicDelay(k) ==
    IF 1000 * Pow2(k) < Ceiling THEN 1000 * Pow2(k) ELSE Ceiling

C11_NoRecoveryAfterTeardown ==
    [][(rev = "IA" /\ ~mounted) =>
          (/\ body' = body
           /\ {t \in timers' : t.kind = "backoff"} = {}
           /\ reconnectRef'.timer = 0)]_vars

\* a step in which initAvatar constructs a session and startAvatar is called
\* on it, in startSessionV2 or in a hard-reset callback
ConstructsSession ==
    \/ startTask.pc = "fetch" /\ startTask'.pc = "start"
    \/ \E s \in Slots : body[s].pc = "fetch" /\ body'[s].pc = "start"

\* C12: back-off revision: at most one session instance is live: a new
\* session is constructed only when the previously constructed one has been
\* stopped (or has died), that is, when the hook holds no starting or
\* started session.
C12_OneLiveSession ==
    [][(rev = "IA" /\ ConstructsSession) => sessionState = "INACTIVE"]_vars

\* C15: back-off revision: whatever stopAvatar answers inside a hard-reset
\* callback, that callback goes on to its settle delay (a rejection is
\* swallowed and never ends the callback).
C15_StopErrorSwallowed ==
    [][\A s \in Slots :
          (rev = "IA" /\ body[s].pc = "stop" /\ body'[s].pc # "stop") =>
              body'[s].pc = "settle"]_vars

\* C16: back-off revision: fetchAccessToken throws on every failed response,
\* so no session is constructed from the body of a failed response.
C16_NoSessionFromFailedResponse ==
    rev = "IA" =>
        /\ \A s \in Slots : body[s].token # "bad"
        /\ startTask.token # "bad"

\* C17: back-off revision: a browser 'online' event received while the
\* session is Inactive changes nothing in the coordinator: no back-off timer
\* is armed and the attempt counter is untouched.
C17_OnlineWhileInactiveNoOp ==
    [][(rev = "IA" /\ ~online /\ online' /\ sessionState = "INACTIVE") =>
          (reconnectRef' = reconnectRef /\ timers' = timers)]_vars

\* C13: recycle revision: the periodic recycle and the hard reset never
\* conflict: while a recycle callback is executing no hard reset is
\* scheduled or executing (so neither begins or continues during the other).
C13_RecycleAndResetExclusive ==
    (rev = "RC" /\ recycleTask.pc # "idle") =>
        (reconnectRef.timer = 0 /\ Executing = {})

(***************************************************************************)
(* The back-off revision under fairness: an armed timer eventually fires,  *)
(* an awaited call eventually returns, and stopAvatar, the token fetch and *)
(* startAvatar do not fail forever.                                        *)
(***************************************************************************)
BodyStopSucceeds(s) == BodyStopReturns_IA(s) /\ body'[s].pc = "settle"
BodyFetchSucceeds(s) == BodyFetchReturns_IA(s) /\ body'[s].token = "good"
BodyStartSucceeds(s) == BodyStartReturns_IA(s) /\ sessionState' = "CONNECTED"
BodyVoiceSucceeds(s) == BodyVoiceReturns_IA(s) /\ lastResetLog' = "done"

FairIA ==
    /\ SpecIA
    /\ WF_vars(BackoffTimerFires_IA)
    /\ WF_vars(SoftRestartReturns_IA)
    /\ \A s \in Slots :
         /\ WF_vars(BodyStopReturns_IA(s))
         /\ WF_vars(BodySettleElapses_IA(s))
         /\ WF_vars(BodyFetchReturns_IA(s))
         /\ WF_vars(BodyStartReturns_IA(s))
         /\ WF_vars(BodyVoiceReturns_IA(s))
         /\ SF_vars(BodyStopSucceeds(s))
         /\ SF_vars(BodyFetchSucceeds(s))
         /\ SF_vars(BodyStartSucceeds(s))

\* every failed hard-reset callback leaves exactly one back-off timer armed
RetryArmed ==
    [][(rev = "IA" /\ BodyFailsStep) =>
          (/\ reconnectRef'.timer # 0
           /\ Cardinality({t \in timers' : t.kind = "backoff"}) = 1)]_vars

\* a STREAM_DISCONNECTED handler is about to request a hard reset, or one is
\* scheduled
HardResetRequested ==
    rev = "IA" /\ (softRestarts > 0 \/ reconnectRef.timer # 0)

\* C14 as stated: back-off revision: every failed hard reset arms one
\* further back-off timer, and under fairness, stop, token fetch and start
\* not failing forever, a hard reset requested by STREAM_DISCONNECTED is
\* eventually followed by a successful one with the attempt counter back at 0.
C14_RetriedUntilSuccessAsClaimed ==
    /\ RetryArmed
    /\ HardResetRequested
          ~> (lastResetLog = "done" /\ reconnectRef.attempts = 0)

\* C14 amended: back-off revision: every failed hard reset arms one further
\* back-off timer, and under fairness, if stop, token fetch, start and the
\* voice-chat start do not fail forever, a requested hard reset is eventually
\* followed by a successful one with the attempt counter back at 0, unless
\* the component is torn down first (or the counter reaches the bound of
\* the model, where scheduling stops).
C14_RetriedUntilSuccess ==
    /\ RetryArmed
    /\ (\A s \in Slots : SF_vars(BodyVoiceSucceeds(s))) =>
          (HardResetRequested
              ~> (\/ lastResetLog = "done" /\ reconnectRef.attempts = 0
                  \/ ~mounted
                  \/ reconnectRef.attempts >= MaxAttempts))

\* hard resets have failed again and again and the next retry is armed
C14_Witness ==
    /\ rev = "IA"
    /\ mounted
    /\ lastResetLog = "failed"
    /\ reconnectRef.attempts >= 4
    /\ reconnectRef.timer # 0

(***************************************************************************)
(* WD: the watchdog revision, src/unnamed/part_000, and SE: the            *)
(* socket-error revision, src/unnamed/part_002 lines 797-1215. SE repeats  *)
(* WD's softRestartTracks, hardReset, startSession, useUnmount and         *)
(* watchdog effect, and adds the WebSocket error counter; the actions      *)
(* below run under both unless they say otherwise.                         *)
(***************************************************************************)
InitWD == rev = "WD" /\ InitCommon

InitSE == rev = "SE" /\ InitCommon

\* state the watchdog and socket-error revisions have no code for
notWD == <<avatarRef, reconnectRef, timers, resetInFlight, startInFlight,
           stopInFlight, voicePausedRef, voiceStartInFlight, body, resumeTask,
           recycleTask, online>>

\* state only the socket-error revision has code for
errVars == <<webSocketErrors, sinceLastError, errorsSeen>>

\* a setupKeepAlive that arms without clearing the interval the ref names
setupKeepAlive_noClear(k) ==
    LET h == NewInterval(k.tbl)
    IN  [ref |-> h, tbl |-> k.tbl \cup {h}]

\* setupKeepAlive(avatar): the interval the ref names is cleared, a new one
\* whose callback holds avatar is armed
setupKeepAlive(k) ==
    LET cleared == IF k.ref # 0 THEN clearInterval(k.tbl, k.ref) ELSE k.tbl
        h == NewInterval(cleared)
    IN  [ref |-> h, tbl |-> cleared \cup {h}]

\* fetchAccessToken: a response that is not ok throws
fetchAccessToken_WD(outcome) ==
    IF outcome = "ok" THEN "good" ELSE "throw"

\* startVoiceChat() as softRestartTracks tells its rejections apart
SoftVoiceOutcomes == {"resolve", "reject400", "reject401", "reject401already",
                      "reject"}

\* which of the substrings softRestartTracks looks for the message of a
\* rejection includes
MessageOf(outcome) ==
    CASE outcome = "reject400" -> {"400"}
      [] outcome = "reject401" -> {"401"}
      [] outcome = "reject401already" -> {"401", "already"}
      [] OTHER -> {}

\* softRestartTracks once its startVoiceChat() has settled
softRestartTracks_WD_rethrowsAll(outcome) ==
    IF outcome = "resolve" THEN "ok" ELSE "throw"

softRestartTracks_WD(outcome) ==
    IF outcome = "resolve" THEN "ok"
    ELSE IF "400" \in MessageOf(outcome) \/ "already" \in MessageOf(outcome)
         THEN "ok"
         ELSE IF "401" \in MessageOf(outcome) THEN "throw" ELSE "throw"

\* setWebSocketErrors(0), which only the socket-error revision has
errorsCleared == IF rev = "SE" THEN 0 ELSE webSocketErrors

\* the hook's isVoiceChatActive, which only the socket-error revision reads
voiceActive(b) == IF rev = "SE" THEN b ELSE isVoiceChatActive

(***************************************************************************)
(* The watchdog effect's state, as the helpers below pass it on:           *)
(* cl = the closures' counters, ref = watchdogIntervalRef, tk = ticks.     *)
(***************************************************************************)
Watch == [cl |-> watchdog, ref |-> watchdogIntervalRef, tk |-> ticks]

\* counters nothing reads any more are collected: previousTime is read by the
\* live interval's next callback, freezeCount by it and by the callbacks
\* suspended in softRestartTracks()
Collected(w) ==
    [c \in Closures |->
        LET live == c = w.ref
            read == \E i \in Ticks : w.tk[i].cl = c /\ w.tk[i].pc = "soft"
        IN  [previousTime |-> IF live THEN w.cl[c].previousTime ELSE 0,
             freezeCount |-> IF live \/ read THEN w.cl[c].freezeCount ELSE 0]]

SetWatch(w) ==
    /\ watchdog' = Collected(w)
    /\ watchdogIntervalRef' = w.ref
    /\ ticks' = w.tk

\* the watchdog effect runs again: the cleanup clears the interval and a new
\* interval is installed over fresh counters
watchdogEffect(w) ==
    LET used == {w.tk[i].cl : i \in Ticks}
        k == CHOOSE c \in Closures :
                /\ c \notin used
                /\ \A d \in Closures : d < c => d \in used
    IN  [w EXCEPT !.ref = k, !.cl[k] = NewClosure]

\* the render that follows the hook's state becoming st
Rendered(w, st) ==
    IF mounted /\ st # sessionState THEN watchdogEffect(w) ELSE w

\* the hook's state becomes st and the component renders
SessionGoes(w, st, str) ==
    /\ sessionState' = st
    /\ stream' = str
    /\ SetWatch(Rendered(w, st))

FreeTick == CHOOSE i \in Ticks :
               /\ ticks[i].pc = "idle"
               /\ \A j \in Ticks : j < i => ticks[j].pc # "idle"

HardExecuting == {h \in HardSlots : hardResets[h].pc # "idle"}

FreeDetached == CHOOSE h \in DetachedSlots :
                   /\ hardResets[h].pc = "idle"
                   /\ \A g \in DetachedSlots : g > h => hardResets[g].pc # "idle"

\* hardReset() up to its await of stopAvatar(), called by h
hardReset_WD(h) ==
    /\ hardResets[h].pc = "idle"
    /\ hardResets' = [hardResets EXCEPT ![h] = [IdleHard EXCEPT !.pc = "stop"]]

\* a watchdog callback that escalates on the second frozen sample
afterSoftRestart_secondSample(result, freezeCount) ==
    IF result = "throw"
    THEN [freezeCount |-> freezeCount, hardReset |-> TRUE]
    ELSE IF freezeCount + 1 >= 2
         THEN [freezeCount |-> 0, hardReset |-> TRUE]
         ELSE [freezeCount |-> freezeCount + 1, hardReset |-> FALSE]

\* the watchdog callback once its softRestartTracks() has settled: the
\* counter it leaves and whether it goes on to hardReset()
afterSoftRestart(result, freezeCount) ==
    IF result = "throw"
    THEN [freezeCount |-> freezeCount, hardReset |-> TRUE]
    ELSE IF freezeCount + 1 >= SOFT_LIMIT
         THEN [freezeCount |-> 0, hardReset |-> TRUE]
         ELSE [freezeCount |-> freezeCount + 1, hardReset |-> FALSE]

\* the watchdog callback i after its await of hardReset(): the catch block
\* zeroes the counter, and the sample is stored
tickResumes(w, i) ==
    LET c == w.tk[i].cl
        fc == IF w.tk[i].pc = "hardE" THEN 0 ELSE w.cl[c].freezeCount
    IN  [w EXCEPT !.cl[c] = [previousTime |-> videoTime, freezeCount |-> fc],
                  !.tk[i] = IdleTick]

\* hardReset() h returns to whoever awaits it
hardResetReturns(w, h) ==
    IF h \in DetachedSlots THEN w ELSE tickResumes(w, h)

\* hardReset() h returns, from the end of its try block or from its catch
HardEnds(h) ==
    hardResets' = [hardResets EXCEPT ![h] = IdleHard]

HardGoes(h, pc) ==
    hardResets' = [hardResets EXCEPT ![h].pc = pc]

\* the playback position advances while a stream is attached
VideoPlays ==
    /\ rev \in {"WD", "SE"}
    /\ stream
    /\ videoTime < MaxVideoTime
    /\ videoTime' = videoTime + 1
    /\ UNCHANGED <<rev, configRef, keepAliveCalls, mounted, sessionState, stream, isVoiceChatRef,
                   keepAliveIntervalRef, keepAlives, lastResetLog, startTask, unmountStop,
                   softRestarts, watchdog, watchdogIntervalRef, ticks,
                   hardResets, isVoiceChatActive, restartTask, errVars, notWD>>

\* STREAM_READY handler; the hook marks the session connected
StreamReady_WD ==
    /\ rev \in {"WD", "SE"}
    /\ sessionState # "INACTIVE"
    /\ SessionGoes(Watch, "CONNECTED", TRUE)
    /\ webSocketErrors' = errorsCleared
    /\ UNCHANGED <<rev, configRef, keepAliveCalls, mounted, isVoiceChatRef, keepAliveIntervalRef, keepAlives,
                   lastResetLog, startTask, unmountStop, softRestarts, videoTime,
                   hardResets, isVoiceChatActive, restartTask, sinceLastError,
                   errorsSeen, notWD>>

\* STREAM_DISCONNECTED handler: softRestartTracks() is called and not
\* awaited; it returns at once unless the session is connected
StreamDisconnected_WD ==
    /\ rev \in {"WD", "SE"}
    /\ sessionState # "INACTIVE"
    /\ IF sessionState = "CONNECTED"
       THEN /\ softRestarts < MaxSoft
            /\ softRestarts' = softRestarts + 1
       ELSE UNCHANGED softRestarts
    /\ \E down \in BOOLEAN :
         SessionGoes(Watch, IF down THEN "INACTIVE" ELSE sessionState,
                     IF down THEN FALSE ELSE stream)
    /\ UNCHANGED <<rev, configRef, keepAliveCalls, mounted, isVoiceChatRef, keepAliveIntervalRef, keepAlives,
                   lastResetLog, startTask, unmountStop, videoTime, hardResets,
                   isVoiceChatActive, restartTask, errVars, notWD>>

\* the startVoiceChat() of that softRestartTracks() settles; nothing awaits
\* the call, so a rejection it re-throws goes unhandled
SoftRestartSettles_WD(o) ==
    /\ rev \in {"WD", "SE"}
    /\ softRestarts > 0
    /\ softRestarts' = softRestarts - 1
    /\ isVoiceChatActive' = IF o = "resolve" THEN voiceActive(TRUE) ELSE isVoiceChatActive
    /\ webSocketErrors' = IF o = "resolve" THEN errorsCleared ELSE webSocketErrors
    /\ UNCHANGED <<rev, configRef, keepAliveCalls, mounted, sessionState, stream, isVoiceChatRef,
                   keepAliveIntervalRef, keepAlives, lastResetLog, startTask, unmountStop,
                   videoTime, watchdog, watchdogIntervalRef, ticks, hardResets,
                   restartTask, sinceLastError, errorsSeen, notWD>>

SoftRestartReturns_WD == \E o \in SoftVoiceOutcomes : SoftRestartSettles_WD(o)

\* history of the callbacks suspended in softRestartTracks(): those of
\* interval c are marked once a later sample of c has found the video advancing
overtaken(tk, c) ==
    [i \in Ticks |->
        IF tk[i].pc = "soft" /\ tk[i].cl = c
        THEN [tk[i] EXCEPT !.soft = "overtaken"]
        ELSE tk[i]]

\* the watchdog interval fires: nothing while the session is not connected;
\* on a frozen sample the callback suspends in softRestartTracks(), else it
\* zeroes the counter and stores the sample
WatchdogTick ==
    /\ rev \in {"WD", "SE"}
    /\ watchdogIntervalRef # 0
    /\ sessionState = "CONNECTED"
    /\ LET c == watchdogIntervalRef
       IN  IF videoTime = watchdog[c].previousTime
           THEN /\ \E i \in Ticks : ticks[i].pc = "idle"
                /\ SetWatch([Watch EXCEPT !.tk[FreeTick] =
                               [pc |-> "soft", cl |-> c, soft |-> "pending"]])
           ELSE SetWatch([Watch EXCEPT !.cl[c] =
                            [previousTime |-> videoTime, freezeCount |-> 0],
                                       !.tk = overtaken(ticks, c)])
    /\ UNCHANGED <<rev, configRef, keepAliveCalls, mounted, sessionState, stream, isVoiceChatRef,
                   keepAliveIntervalRef, keepAlives, lastResetLog, startTask, unmountStop,
                   softRestarts, videoTime, hardResets, isVoiceChatActive,
                   restartTask, errVars, notWD>>

\* the softRestartTracks() a watchdog callback awaits settles with outcome o
TickSoftSettles(i, o) ==
    /\ rev \in {"WD", "SE"}
    /\ ticks[i].pc = "soft"
    /\   LET r == softRestartTracks_WD(o)
             c == ticks[i].cl
             d == afterSoftRestart(r, watchdog[c].freezeCount)
         IN  /\ IF d.hardReset
                THEN /\ hardReset_WD(i)
                     /\ SetWatch([Watch EXCEPT
                           !.cl[c].freezeCount = d.freezeCount,
                           !.tk[i] = [pc |-> IF r = "ok" THEN "hardT" ELSE "hardE",
                                      cl |-> c, soft |-> r]])
                ELSE /\ UNCHANGED hardResets
                     /\ SetWatch([Watch EXCEPT
                           !.cl[c] = [previousTime |-> videoTime,
                                      freezeCount |-> d.freezeCount],
                           !.tk[i] = IdleTick])
             /\ isVoiceChatActive' = IF o = "resolve" THEN voiceActive(TRUE) ELSE isVoiceChatActive
             /\ webSocketErrors' = IF o = "resolve" THEN errorsCleared ELSE webSocketErrors
    /\ UNCHANGED <<rev, configRef, keepAliveCalls, mounted, sessionState, stream, isVoiceChatRef,
                   keepAliveIntervalRef, keepAlives, lastResetLog, startTask, unmountStop,
                   softRestarts, videoTime, restartTask, sinceLastError,
                   errorsSeen, notWD>>

TickSoftReturns(i) == \E o \in SoftVoiceOutcomes : TickSoftSettles(i, o)

\* the stopAvatar() of hardReset() settles; a rejection is caught and logged.
\* Else the keepalive interval is cleared, and after the 1000 ms pause the
\* token is requested
HardStopReturns(h) ==
    /\ rev \in {"WD", "SE"}
    /\ hardResets[h].pc = "stop"
    /\ \E o \in StopOutcomes :
         IF o = "resolve"
         THEN /\ HardGoes(h, "fetch")
              /\ SetKeepAlive(disarmKeepAlive(KeepAlive))
              /\ isVoiceChatActive' = voiceActive(FALSE)
              /\ SessionGoes(Watch, "INACTIVE", FALSE)
         ELSE /\ HardEnds(h)
              /\ UNCHANGED <<keepAliveIntervalRef, keepAlives, isVoiceChatActive>>
              /\ SessionGoes(hardResetReturns(Watch, h), HookAfterStop(o), stream)
    /\ UNCHANGED <<rev, configRef, keepAliveCalls, mounted, isVoiceChatRef, startTask, lastResetLog, unmountStop,
                   softRestarts, videoTime, restartTask, errVars, notWD>>

\* the token fetch of hardReset() settles: initAvatar, handlers, startAvatar
HardFetchReturns(h) ==
    /\ rev \in {"WD", "SE"}
    /\ hardResets[h].pc = "fetch"
    /\ \E o \in FetchOutcomes :
         LET token == fetchAccessToken_WD(o)
         IN  IF token = "throw"
             THEN /\ HardEnds(h)
                  /\ SessionGoes(hardResetReturns(Watch, h), sessionState, stream)
             ELSE /\ hardResets' = [hardResets EXCEPT ![h].pc = "start",
                                                      ![h].token = token,
                                                      ![h].idleTimeout = configRef]
                  /\ SessionGoes(Watch, "CONNECTING", stream)
    /\ UNCHANGED <<rev, configRef, keepAliveCalls, mounted, isVoiceChatRef, keepAliveIntervalRef, keepAlives, startTask, lastResetLog,
                   unmountStop, softRestarts, videoTime, isVoiceChatActive,
                   restartTask, errVars, notWD>>

\* the end of hardReset()'s try block: setupKeepAlive, setWebSocketErrors(0)
hardResetSucceeds(h, w) ==
    /\ SetKeepAlive(setupKeepAlive(KeepAlive))
    /\ webSocketErrors' = errorsCleared
    /\ HardEnds(h)
    /\ SessionGoes(hardResetReturns(w, h), "CONNECTED", TRUE)

\* startAvatar(configRef.current) of hardReset() settles
HardStartReturns(h) ==
    /\ rev \in {"WD", "SE"}
    /\ hardResets[h].pc = "start"
    /\ \E o \in StartOutcomes(hardResets[h].token) :
         IF o = "resolve"
         THEN IF isVoiceChatRef
              THEN /\ HardGoes(h, "voice")
                   /\ SessionGoes(Watch, "CONNECTED", TRUE)
                   /\ UNCHANGED <<keepAliveIntervalRef, keepAlives, webSocketErrors>>
              ELSE hardResetSucceeds(h, Watch)
         ELSE /\ HardEnds(h)
              /\ SessionGoes(hardResetReturns(Watch, h),
                             HookAfterStart(o).state, HookAfterStart(o).stream)
              /\ UNCHANGED <<keepAliveIntervalRef, keepAlives, webSocketErrors>>
    /\ UNCHANGED <<rev, configRef, keepAliveCalls, mounted, isVoiceChatRef, startTask, lastResetLog, unmountStop,
                   softRestarts, videoTime, isVoiceChatActive, restartTask,
                   sinceLastError, errorsSeen, notWD>>

\* startVoiceChat() settles inside hardReset()
HardVoiceReturns(h) ==
    /\ rev \in {"WD", "SE"}
    /\ hardResets[h].pc = "voice"
    /\ \E o \in VoiceOutcomes :
         IF o = "resolve"
         THEN /\ SetKeepAlive(setupKeepAlive(KeepAlive))
              /\ webSocketErrors' = errorsCleared
              /\ isVoiceChatActive' = voiceActive(TRUE)
              /\ HardEnds(h)
              /\ SessionGoes(hardResetReturns(Watch, h), sessionState, stream)
         ELSE /\ HardEnds(h)
              /\ SessionGoes(hardResetReturns(Watch, h), sessionState, stream)
              /\ UNCHANGED <<keepAliveIntervalRef, keepAlives, webSocketErrors,
                             isVoiceChatActive>>
    /\ UNCHANGED <<rev, configRef, keepAliveCalls, mounted, isVoiceChatRef, startTask, lastResetLog, unmountStop,
                   softRestarts, videoTime, restartTask, sinceLastError,
                   errorsSeen, notWD>>

\* startSession(needVoice), up to the token fetch; the start buttons are
\* rendered only while the session is inactive
startSession_WD(needVoice) ==
    /\ rev \in {"WD", "SE"}
    /\ mounted
    /\ sessionState = "INACTIVE"
    /\ startTask.pc = "idle"
    /\ startTask' = [IdleStart EXCEPT !.pc = "fetch", !.voice = needVoice]
    /\ UNCHANGED <<rev, configRef, keepAliveCalls, mounted, sessionState, stream, isVoiceChatRef,
                   keepAliveIntervalRef, keepAlives, lastResetLog, unmountStop, softRestarts,
                   watchVars, notWD>>

StartFetchReturns_WD ==
    /\ rev \in {"WD", "SE"}
    /\ startTask.pc = "fetch"
    /\ \E o \in FetchOutcomes :
         LET token == fetchAccessToken_WD(o)
         IN  IF token = "throw"
             THEN /\ startTask' = IdleStart
                  /\ UNCHANGED <<sessionState, stream, watchdog,
                                 watchdogIntervalRef, ticks>>
             ELSE /\ startTask' = [startTask EXCEPT !.pc = "start", !.token = token,
                                                    !.idleTimeout = configRef]
                  /\ SessionGoes(Watch, "CONNECTING", stream)
    /\ UNCHANGED <<rev, configRef, keepAliveCalls, mounted, isVoiceChatRef, keepAliveIntervalRef, keepAlives,
                   lastResetLog, unmountStop, softRestarts, videoTime, hardResets,
                   isVoiceChatActive, restartTask, errVars, notWD>>

\* startSession after startAvatar has resolved: setupKeepAlive(avatar), then
\* the voice chat if it was asked for
StartAfterStart_WD ==
    /\ SetKeepAlive(setupKeepAlive(KeepAlive))
    /\ startTask' = IF startTask.voice
                    THEN [startTask EXCEPT !.pc = "voice"]
                    ELSE IdleStart

\* startAvatar settles in startSession: setupKeepAlive, then the voice chat
StartStartReturns_WD ==
    /\ rev \in {"WD", "SE"}
    /\ startTask.pc = "start"
    /\ \E o \in StartOutcomes(startTask.token) :
         /\ SessionGoes(Watch, HookAfterStart(o).state, HookAfterStart(o).stream)
         /\ IF o = "resolve"
            THEN StartAfterStart_WD
            ELSE startTask' = IdleStart /\ UNCHANGED <<keepAliveIntervalRef, keepAlives>>
    /\ UNCHANGED <<rev, configRef, keepAliveCalls, mounted, isVoiceChatRef, lastResetLog, unmountStop,
                   softRestarts, videoTime, hardResets, isVoiceChatActive,
                   restartTask, errVars, notWD>>

\* startVoiceChat() settles in startSession; the ref is set only on success
StartVoiceReturns_WD ==
    /\ rev \in {"WD", "SE"}
    /\ startTask.pc = "voice"
    /\ startTask' = IdleStart
    /\ \E o \in VoiceOutcomes :
         /\ isVoiceChatRef' = IF o = "resolve" THEN TRUE ELSE isVoiceChatRef
         /\ isVoiceChatActive' = IF o = "resolve" THEN voiceActive(TRUE) ELSE isVoiceChatActive
    /\ UNCHANGED <<rev, configRef, keepAliveCalls, mounted, sessionState, stream, keepAliveIntervalRef, keepAlives,
                   lastResetLog, unmountStop, softRestarts, videoTime, watchdog,
                   watchdogIntervalRef, ticks, hardResets, restartTask, errVars,
                   notWD>>

\* useUnmount: the keepalive, watchdog and monitor intervals are cleared
Unmount_WD ==
    /\ rev \in {"WD", "SE"}
    /\ mounted
    /\ mounted' = FALSE
    /\ keepAlives' = IF keepAliveIntervalRef # 0
                    THEN clearInterval(keepAlives, keepAliveIntervalRef)
                    ELSE keepAlives
    /\ UNCHANGED keepAliveIntervalRef
    /\ SetWatch([Watch EXCEPT !.ref = 0])
    /\ unmountStop' = TRUE
    /\ UNCHANGED <<rev, configRef, keepAliveCalls, sessionState, stream, isVoiceChatRef, lastResetLog,
                   startTask, softRestarts, videoTime, hardResets,
                   isVoiceChatActive, restartTask, errVars, notWD>>

\* session start, session events, hardReset and unmount, which the watchdog
\* and the socket-error revision share
NextSession_WD ==
    \/ StreamReady_WD
    \/ StreamDisconnected_WD
    \/ SoftRestartReturns_WD
    \/ \E h \in HardSlots : HardStopReturns(h)
    \/ \E h \in HardSlots : HardFetchReturns(h)
    \/ \E h \in HardSlots : HardStartReturns(h)
    \/ \E h \in HardSlots : HardVoiceReturns(h)
    \/ \E v \in BOOLEAN : startSession_WD(v)
    \/ StartFetchReturns_WD
    \/ StartStartReturns_WD
    \/ StartVoiceReturns_WD
    \/ Unmount_WD
    \/ UnmountStopReturns

NextWD ==
    \/ VideoPlays
    \/ WatchdogTick
    \/ \E i \in Ticks : TickSoftReturns(i)
    \/ NextSession_WD

SpecWD == InitWD /\ [][NextWD]_vars

\* the watchdog revision for as long as the component stays mounted
NextMounted_WD ==
    \/ VideoPlays
    \/ WatchdogTick
    \/ \E i \in Ticks : TickSoftReturns(i)
    \/ StreamReady_WD
    \/ StreamDisconnected_WD
    \/ SoftRestartReturns_WD
    \/ \E h \in HardSlots : HardStopReturns(h)
    \/ \E h \in HardSlots : HardFetchReturns(h)
    \/ \E h \in HardSlots : HardStartReturns(h)
    \/ \E h \in HardSlots : HardVoiceReturns(h)
    \/ \E v \in BOOLEAN : startSession_WD(v)
    \/ StartFetchReturns_WD
    \/ StartStartReturns_WD
    \/ StartVoiceReturns_WD

SpecWM == InitWD /\ [][NextMounted_WD]_vars

(***************************************************************************)
(* The freeze watchdog's escalation.                                       *)
(***************************************************************************)
\* the live interval's next sample finds the playback position unchanged
FrozenSample ==
    /\ watchdogIntervalRef # 0
    /\ sessionState = "CONNECTED"
    /\ videoTime = watchdog[watchdogIntervalRef].previousTime

\* watchdog callback i goes on from its soft restart to hardReset()
TickRequestsHardReset(i) ==
    /\ ticks[i].pc = "soft"
    /\ ticks'[i].pc \in {"hardT", "hardE"}

\* a watchdog callback on a frozen sample calls softRestartTracks()
SoftRestartOnFrozenSample ==
    [][(rev = "WD" /\ FrozenSample /\ WatchdogTick) =>
          \E i \in Ticks : ticks[i].pc = "idle" /\ ticks'[i].pc = "soft"]_vars

\* C18 as the claim words it: in the watchdog revision a soft restart is
\* requested on each frozen sample, and a hard reset is requested only on the
\* third frozen sample in a row, never on an earlier one.
C18_HardResetOnlyOnThirdSample ==
    /\ SoftRestartOnFrozenSample
    /\ [][\A i \in Ticks :
            (rev = "WD" /\ TickRequestsHardReset(i)) =>
                watchdog[ticks[i].cl].freezeCount + 1 >= SOFT_LIMIT]_vars

\* C18: in the watchdog revision a soft restart is requested on each frozen
\* sample taken while the session is connected; the watchdog requests a hard
\* reset on a frozen sample either at once when that sample's soft restart
\* throws, whatever the count, or when the soft restart completes and is the
\* third completed one since the counter was last zeroed; a frozen sample
\* whose soft restart completes below that count requests no hard reset.
C18_HardResetOnThirdOrOnError ==
    /\ SoftRestartOnFrozenSample
    /\ [][\A i \in Ticks :
            rev = "WD" =>
              /\ TickRequestsHardReset(i) =>
                   \/ ticks'[i].soft = "throw"
                   \/ /\ ticks'[i].soft = "ok"
                      /\ watchdog[ticks[i].cl].freezeCount = SOFT_LIMIT - 1
              /\ (ticks[i].pc = "soft" /\ ticks'[i].pc = "idle") =>
                   watchdog[ticks[i].cl].freezeCount + 1 < SOFT_LIMIT]_vars

\* a watchdog callback awaits the hard reset it requested on the third
\* frozen sample whose soft restart completed
C18_Witness ==
    /\ rev = "WD"
    /\ \E i \in Ticks : ticks[i].pc = "hardT" /\ ticks[i].soft = "ok"

(***************************************************************************)
(* SE: what the socket-error revision adds, src/unnamed/part_002 lines     *)
(* 797-1215: the console.error patch that counts WebSocket errors, the     *)
(* 15 s error monitor, restartVoiceChat and the Fix Microphone button.     *)
(* Its watchdog effect is the watchdog revision's, line for line, and is   *)
(* explored under SpecWD; SpecSE runs the error counter against session    *)
(* start, session events, hardReset and unmount.                           *)
(***************************************************************************)
\* stopVoiceChat()
StopVoiceOutcomes == {"resolve", "reject"}

FreeRestart == CHOOSE r \in RestartSlots :
                  /\ restartTask[r] = "idle"
                  /\ \A q \in RestartSlots : q < r => restartTask[q] # "idle"

\* restartVoiceChat() up to its first await: false at once unless the session
\* is connected, else stopVoiceChat() if the channel is open, else
\* startVoiceChat()
restartVoiceChat_SE ==
    IF sessionState # "CONNECTED"
    THEN UNCHANGED restartTask
    ELSE /\ \E r \in RestartSlots : restartTask[r] = "idle"
         /\ restartTask' = [restartTask EXCEPT ![FreeRestart] =
                               IF isVoiceChatActive THEN "stopVoice" ELSE "startVoice"]

\* the later age sample next to a
NextAge(a) ==
    IF a = Oldest THEN a
    ELSE CHOOSE b \in AgeSamples :
            /\ b > a
            /\ \A c \in AgeSamples : c > a => b <= c

\* an updater that asks for the voice restart on every counted error up to
\* the third
countError_everyError(prev) ==
    LET newCount == prev + 1
    IN  IF newCount <= VOICE_RESTART_AT
        THEN [count |-> newCount, does |-> "restartVoiceChat"]
        ELSE IF newCount > HARD_RESET_ABOVE
             THEN [count |-> 0, does |-> "hardReset"]
             ELSE [count |-> newCount, does |-> "nothing"]

\* the updater passed to setWebSocketErrors for a counted error: the new
\* count and what it calls
countError(prev) ==
    LET newCount == prev + 1
    IN  IF newCount = VOICE_RESTART_AT
        THEN [count |-> newCount, does |-> "restartVoiceChat"]
        ELSE IF newCount > HARD_RESET_ABOVE
             THEN [count |-> 0, does |-> "hardReset"]
             ELSE [count |-> newCount, does |-> "nothing"]

\* console.error is called with a WebSocket CLOSING/CLOSED message: the
\* error is counted only if more than 5000 ms after the last counted one.
\* The then-callback of the voice restart tests newCount > 5 where newCount
\* is 3, so it never calls softRestartTracks().
WebSocketError ==
    /\ rev = "SE"
    /\ mounted
    /\ errorsSeen < MaxBurst
    /\ errorsSeen' = errorsSeen + 1
    /\ IF sinceLastError > ERROR_SPACING
       THEN LET d == countError(webSocketErrors)
            IN  /\ webSocketErrors' = d.count
                /\ sinceLastError' = 0
                /\ IF d.does = "restartVoiceChat"
                   THEN restartVoiceChat_SE /\ UNCHANGED hardResets
                   ELSE IF d.does = "hardReset"
                        THEN /\ \E h \in DetachedSlots : hardResets[h].pc = "idle"
                             /\ hardReset_WD(FreeDetached)
                             /\ UNCHANGED restartTask
                        ELSE UNCHANGED <<hardResets, restartTask>>
       ELSE UNCHANGED <<webSocketErrors, sinceLastError, hardResets, restartTask>>
    /\ UNCHANGED <<rev, configRef, keepAliveCalls, mounted, sessionState, stream, isVoiceChatRef,
                   keepAliveIntervalRef, keepAlives, lastResetLog, startTask, unmountStop,
                   softRestarts, videoTime, watchdog, watchdogIntervalRef, ticks,
                   isVoiceChatActive, notWD>>

\* time passes, up to the next age sample
TimePasses ==
    /\ rev = "SE"
    /\ sinceLastError # Oldest \/ errorsSeen # 0
    /\ sinceLastError' = NextAge(sinceLastError)
    /\ errorsSeen' = 0
    /\ UNCHANGED <<rev, configRef, keepAliveCalls, mounted, sessionState, stream, isVoiceChatRef,
                   keepAliveIntervalRef, keepAlives, lastResetLog, startTask, unmountStop,
                   softRestarts, videoTime, watchdog, watchdogIntervalRef, ticks,
                   hardResets, isVoiceChatActive, webSocketErrors, restartTask,
                   notWD>>

\* the 15 s error monitor fires with errors counted and the session connected
ErrorMonitorTick ==
    /\ rev = "SE"
    /\ mounted
    /\ webSocketErrors > 0
    /\ sessionState = "CONNECTED"
    /\ IF sinceLastError > ERROR_DECAY
       THEN /\ webSocketErrors' = 0
            /\ UNCHANGED restartTask
       ELSE /\ sinceLastError < ERROR_RECENT
            /\ ~isVoiceChatActive
            /\ isVoiceChatRef
            /\ restartVoiceChat_SE
            /\ UNCHANGED webSocketErrors
    /\ UNCHANGED <<rev, configRef, keepAliveCalls, mounted, sessionState, stream, isVoiceChatRef,
                   keepAliveIntervalRef, keepAlives, lastResetLog, startTask, unmountStop,
                   softRestarts, videoTime, watchdog, watchdogIntervalRef, ticks,
                   hardResets, isVoiceChatActive, sinceLastError, errorsSeen,
                   notWD>>

\* the Fix Microphone button, rendered while connected with more than 2 errors
FixMicrophone ==
    /\ rev = "SE"
    /\ mounted
    /\ sessionState = "CONNECTED"
    /\ webSocketErrors > 2
    /\ restartVoiceChat_SE
    /\ UNCHANGED <<rev, configRef, keepAliveCalls, mounted, sessionState, stream, isVoiceChatRef,
                   keepAliveIntervalRef, keepAlives, lastResetLog, startTask, unmountStop,
                   softRestarts, videoTime, watchdog, watchdogIntervalRef, ticks,
                   hardResets, isVoiceChatActive, errVars, notWD>>

\* stopVoiceChat() settles in restartVoiceChat(); a rejection is caught, else
\* startVoiceChat() is called after the 500 ms pause
RestartStopReturns(r) ==
    /\ rev = "SE"
    /\ restartTask[r] = "stopVoice"
    /\ \E o \in StopVoiceOutcomes :
         IF o = "resolve"
         THEN /\ isVoiceChatActive' = FALSE
              /\ restartTask' = [restartTask EXCEPT ![r] = "startVoice"]
         ELSE /\ restartTask' = [restartTask EXCEPT ![r] = "idle"]
              /\ UNCHANGED isVoiceChatActive
    /\ UNCHANGED <<rev, configRef, keepAliveCalls, mounted, sessionState, stream, isVoiceChatRef,
                   keepAliveIntervalRef, keepAlives, lastResetLog, startTask, unmountStop,
                   softRestarts, videoTime, watchdog, watchdogIntervalRef, ticks,
                   hardResets, errVars, notWD>>

\* startVoiceChat() settles in restartVoiceChat(): the counter is zeroed on
\* success, a rejection is caught
RestartStartReturns(r) ==
    /\ rev = "SE"
    /\ restartTask[r] = "startVoice"
    /\ restartTask' = [restartTask EXCEPT ![r] = "idle"]
    /\ \E o \in VoiceOutcomes :
         IF o = "resolve"
         THEN isVoiceChatActive' = TRUE /\ webSocketErrors' = 0
         ELSE UNCHANGED <<isVoiceChatActive, webSocketErrors>>
    /\ UNCHANGED <<rev, configRef, keepAliveCalls, mounted, sessionState, stream, isVoiceChatRef,
                   keepAliveIntervalRef, keepAlives, lastResetLog, startTask, unmountStop,
                   softRestarts, videoTime, watchdog, watchdogIntervalRef, ticks,
                   hardResets, sinceLastError, errorsSeen, notWD>>

NextSE ==
    \/ NextSession_WD
    \/ WebSocketError
    \/ TimePasses
    \/ ErrorMonitorTick
    \/ FixMicrophone
    \/ \E r \in RestartSlots : RestartStopReturns(r)
    \/ \E r \in RestartSlots : RestartStartReturns(r)

SpecSE == InitSE /\ [][NextSE]_vars

(***************************************************************************)
(* The socket-error watcher's thresholds.                                  *)
(***************************************************************************)
\* restartVoiceChat() calls that start their work in this step
RestartsStarted ==
    {r \in RestartSlots : restartTask[r] = "idle" /\ restartTask'[r] # "idle"}

\* hardReset() calls that start in this step
HardResetsStarted ==
    {h \in HardSlots : hardResets[h].pc = "idle" /\ hardResets'[h].pc # "idle"}

C20_OneHardResetAtATime ==
    rev \in {"WD", "SE"} => Cardinality(HardExecuting) <= 1


(***************************************************************************)
(* Grace-window revision: scheduling after a cancellation (C21, C22).      *)
(***************************************************************************)

\* C21: grace-window revision: once cancelPendingHardReset has left the
\* coordinator with no back-off timer, no body executing and attempts = 0
\* (the state a cancelled scheduled hard reset leaves), the next grace timer
\* that elapses schedules a hard reset computed with attempt 0: a back-off
\* timer with a delay in [1000, 1500) ms is armed.
C21_RescheduledFromAttemptZero ==
    [][(/\ rev = "GW"
        /\ reconnectRef.timer = 0
        /\ reconnectRef.attempts = 0
        /\ Executing = {}
        /\ GraceTimerFires_GW)
       => \E t \in timers' :
            /\ t.kind = "backoff"
            /\ t.h = reconnectRef'.timer
            /\ t.attempt = 0
            /\ t.delay >= BASE_DELAY
            /\ t.delay < BASE_DELAY + JITTER_GW]_vars


\* a step in which a hard-reset callback that itself invoked startAvatar for
\* the new session, and saw it resolve, returns from the end of its try block
ConfirmedBodyStep ==
    \E s \in Slots :
        /\ body[s].pc \in {"start", "voice"}
        /\ body[s].token # "none"
        /\ body'[s].pc = "idle"
        /\ lastResetLog' = "done"

\* C22: grace-window revision: the attempt counter is reset to 0 only on
\* confirmed success or teardown: a hard-reset callback that returns from the
\* end of its try block (where it zeroes attempts) has invoked startAvatar
\* for the new session and seen it resolve, and every other step that zeroes
\* a non-zero counter is STREAM_READY, 'playing' or unmount.
C22_AttemptsZeroedOnlyOnSuccess ==
    [][rev = "GW" =>
         /\ BodySucceedsStep => ConfirmedBodyStep
         /\ (reconnectRef.attempts # 0 /\ reconnectRef'.attempts = 0) =>
               \/ ConfirmedBodyStep
               \/ StreamReady_GW
               \/ VideoPlaying_GW
               \/ Unmount_GW]_vars


(***************************************************************************)
(* The keepalive interval's callback (C23 to C26).  It changes nothing of  *)
(* the component's state: the specifications above leave it out, the ones  *)
(* below count the keepAlive() invocations it makes, up to MaxPings.       *)
(***************************************************************************)
notKeepAliveCalls ==
    <<rev, mounted, sessionState, stream, avatarRef, isVoiceChatRef,
      keepAliveIntervalRef, keepAlives, reconnectRef, timers, resetInFlight,
      startInFlight, stopInFlight, voicePausedRef, voiceStartInFlight, body,
      lastResetLog, startTask, resumeTask, unmountStop, softRestarts,
      recycleTask, online, videoTime, watchdog, watchdogIntervalRef, ticks,
      hardResets, isVoiceChatActive, webSocketErrors, sinceLastError,
      errorsSeen, restartTask, configRef>>

\* an interval callback that pings without asking isHealthy()
KeepAliveTick_IA_unguarded ==
    /\ rev \in {"IA", "RC"}
    /\ keepAlives # {}
    /\ keepAliveCalls < MaxPings
    /\ keepAliveCalls' = keepAliveCalls + 1
    /\ UNCHANGED notKeepAliveCalls

\* the callback of startSessionV2's interval: keepAlive() goes to
\* avatarRef.current, and only while isHealthy(); else the tick does nothing
KeepAliveTick_IA ==
    /\ rev \in {"IA", "RC"}
    /\ keepAlives # {}
    /\ keepAliveCalls < MaxPings
    /\ isHealthy
    /\ avatarRef # 0
    /\ keepAliveCalls' = keepAliveCalls + 1
    /\ UNCHANGED notKeepAliveCalls

\* the callback of setupKeepAlive's interval: keepAlive() goes to the avatar
\* setupKeepAlive was called with, whatever the session's state is
KeepAliveTick_WD ==
    /\ rev \in {"WD", "SE"}
    /\ keepAlives # {}
    /\ keepAliveCalls < MaxPings
    /\ keepAliveCalls' = keepAliveCalls + 1
    /\ UNCHANGED notKeepAliveCalls

\* the back-off revision with its keepalive ticks
SpecKA == InitIA /\ [][NextIA \/ KeepAliveTick_IA]_vars

\* the watchdog revision with its keepalive ticks, on a video that never
\* advances (every sample of the watchdog is a frozen one)
SpecKW ==
    InitWD /\ [][\/ WatchdogTick
                 \/ \E i \in Ticks : TickSoftReturns(i)
                 \/ NextSession_WD
                 \/ KeepAliveTick_WD]_vars

\* both revisions, the ticks left out, the watchdog's video never advancing
SpecKK ==
    (InitIA \/ InitWD) /\ [][\/ NextIA
                              \/ WatchdogTick
                              \/ \E i \in Ticks : TickSoftReturns(i)
                              \/ NextSession_WD]_vars


\* C23: back-off revision: keepAlive() is invoked only while sessionState is
\* CONNECTED, and on avatarRef.current, which then holds a session; in
\* every other state a tick of the interval invokes nothing, also while a
\* hard reset is between stopping the old session and the new one becoming
\* connected.
C23_KeepAliveOnlyWhileConnected ==
    [][(rev = "IA" /\ keepAliveCalls' # keepAliveCalls) =>
          (/\ sessionState = "CONNECTED"
           /\ avatarRef # 0
           /\ keepAlives # {})]_vars

\* keepAlive() has been invoked, and now the interval is armed while a hard
\* reset has stopped the old session and the new one is not connected yet
C23_Witness ==
    /\ rev = "IA"
    /\ keepAliveCalls > 0
    /\ keepAlives # {}
    /\ \E s \in Slots : body[s].pc \in {"settle", "fetch", "start"}
    /\ sessionState # "CONNECTED"


\* C24: watchdog revision: keepAlive() is invoked only while sessionState is
\* CONNECTED and by the interval keepAliveIntervalRef names, the one armed
\* for the session that is live: no tick pings a session that has
\* disconnected or been stopped.
C24_KeepAliveOnlyOnLiveSession ==
    [][(rev = "WD" /\ keepAliveCalls' # keepAliveCalls) =>
          (/\ sessionState = "CONNECTED"
           /\ keepAliveIntervalRef \in keepAlives)]_vars


\* C25: back-off revision: the keepalive is re-armed by recovery: whenever
\* the component is mounted and the session is CONNECTED with the start call
\* past its startAvatar and no hard-reset callback executing, a keepalive
\* interval is armed, also when startSessionV2 failed before arming it and a
\* hard reset established the session.
C25_KeepAliveArmedWhenConnected ==
    (/\ rev = "IA"
     /\ mounted
     /\ sessionState = "CONNECTED"
     /\ startTask.pc \in {"idle", "voice"}
     /\ Executing = {})
    => (keepAliveIntervalRef # 0 /\ keepAliveIntervalRef \in keepAlives)


\* C26: back-off revision and watchdog revision: at most one keepalive
\* interval is armed at any time, whatever starts and hard resets have
\* run, also when a start runs while an interval is armed.
C26_OneKeepAlive ==
    rev \in {"IA", "WD"} => Cardinality(keepAlives) <= 1

\* the watchdog revision's startSession runs again while the interval of the
\* session before is still armed
C26_Witness ==
    /\ rev = "WD"
    /\ keepAlives # {}
    /\ startTask.pc = "start"


\* a step in which a hardReset() call begins: it is at its stopAvatar()
HardResetBegins ==
    \E h \in HardSlots : hardResets[h].pc = "idle" /\ hardResets'[h].pc = "stop"

\* C27: watchdog revision: a softRestartTracks that fails with a 401 forces
\* a hard reset on every path: whether the watchdog callback or the
\* STREAM_DISCONNECTED handler called it, hardReset() is invoked when the
\* rejection arrives.
C27_Expiry401ForcesHardReset ==
    [][(/\ rev = "WD"
        /\ \/ SoftRestartSettles_WD("reject401")
           \/ \E i \in Ticks : TickSoftSettles(i, "reject401"))
       => HardResetBegins]_vars


(***************************************************************************)
(* Recycle revision: failures and guards of the periodic recycle (C28,     *)
(* C29).                                                                   *)
(***************************************************************************)
\* a step in which the recycle callback returns through its catch block:
\* its stopAvatar or token fetch failed, its startAvatar left the session
\* unconnected, or its startVoiceChat rejected
RecycleFailsStep ==
    /\ rev = "RC"
    /\ \/ recycleTask.pc \in {"stop", "fetch"} /\ recycleTask'.pc = "idle"
       \/ /\ recycleTask.pc = "start"
          /\ recycleTask'.pc = "idle"
          /\ sessionState' # "CONNECTED"
       \/ RecycleVoiceSettles_RC("reject")

\* C28: recycle revision: every failure inside a periodic recycle escalates
\* to a hard reset: after the failing step a back-off timer is pending, armed
\* by the catch block or pending before.
C28_RecycleFailureEscalates ==
    [][RecycleFailsStep =>
          (/\ reconnectRef'.timer # 0
           /\ \E t \in timers' : t.kind = "backoff" /\ t.h = reconnectRef'.timer)]_vars

\* a started session whose recycle failed after its stopAvatar had resolved:
\* no hard-reset callback has run, and a back-off timer is pending
C28_Witness ==
    /\ rev = "RC"
    /\ mounted
    /\ keepAliveIntervalRef # 0
    /\ avatarRef = 0
    /\ recycleTask.pc = "idle"
    /\ Executing = {}
    /\ lastResetLog = "none"
    /\ reconnectRef.timer # 0


\* C29: recycle revision: a periodic recycle begins its rebuild only when
\* the browser is online, a session handle exists and the session is
\* CONNECTED; a tick in any other state changes nothing.
C29_RecycleOnlyWhenConnected ==
    [][RecycleTick_RC =>
          (/\ online
           /\ avatarRef # 0
           /\ sessionState = "CONNECTED")]_vars


ConfiguredTimeouts == {DEFAULT_IDLE_TIMEOUT, 2 * DEFAULT_IDLE_TIMEOUT}

notConfigRef ==
    <<rev, mounted, sessionState, stream, avatarRef, isVoiceChatRef,
      keepAliveIntervalRef, keepAlives, keepAliveCalls, reconnectRef, timers,
      resetInFlight, startInFlight, stopInFlight, voicePausedRef,
      voiceStartInFlight, body, lastResetLog, startTask, resumeTask,
      unmountStop, softRestarts, recycleTask, online, videoTime, watchdog,
      watchdogIntervalRef, ticks, hardResets, isVoiceChatActive,
      webSocketErrors, sinceLastError, errorsSeen, restartTask>>

\* <AvatarConfig onConfigChange={setConfig}/>, rendered while the session is
\* inactive, and the effect that copies config into configRef.current
ConfigChanges ==
    /\ mounted
    /\ sessionState = "INACTIVE"
    /\ \E t \in ConfiguredTimeouts : t # configRef /\ configRef' = t
    /\ UNCHANGED notConfigRef

\* the watchdog revision's session starts (startSession, and hardReset from
\* the watchdog) with a caller who edits the configuration
SpecCW == InitWD /\ [][\/ ConfigChanges
                       \/ \E v \in BOOLEAN : startSession_WD(v)
                       \/ StartFetchReturns_WD
                       \/ StartStartReturns_WD
                       \/ StartVoiceReturns_WD
                       \/ WatchdogTick
                       \/ \E i \in Ticks : TickSoftReturns(i)
                       \/ \E h \in HardSlots : HardStopReturns(h)
                       \/ \E h \in HardSlots : HardFetchReturns(h)
                       \/ \E h \in HardSlots : HardStartReturns(h)
                       \/ \E h \in HardSlots : HardVoiceReturns(h)]_vars

\* C31: every startAvatar call in flight (initial start, hard reset, recycle)
\* was passed an idle timeout of at most 3600 s, whatever the configuration holds
C31_IdleTimeoutClamped ==
    /\ startTask.idleTimeout <= MAX_IDLE_TIMEOUT
    /\ recycleTask.idleTimeout <= MAX_IDLE_TIMEOUT
    /\ \A s \in Slots : body[s].idleTimeout <= MAX_IDLE_TIMEOUT
    /\ \A h \in HardSlots : hardResets[h].idleTimeout <= MAX_IDLE_TIMEOUT

(***************************************************************************)
(* Socket-error revision: decay of the error counter (C32).                *)
(***************************************************************************)
\* the socket-error revision with time passing, the 15 s monitor interval
\* firing and every awaited call returning
FairSE ==
    /\ SpecSE
    /\ WF_vars(TimePasses)
    /\ WF_vars(ErrorMonitorTick)
    /\ WF_vars(StartFetchReturns_WD)
    /\ WF_vars(StartStartReturns_WD)
    /\ WF_vars(StartVoiceReturns_WD)
    /\ WF_vars(SoftRestartReturns_WD)
    /\ WF_vars(UnmountStopReturns)
    /\ \A r \in RestartSlots :
         /\ WF_vars(RestartStopReturns(r))
         /\ WF_vars(RestartStartReturns(r))
    /\ \A h \in HardSlots :
         /\ WF_vars(HardStopReturns(h))
         /\ WF_vars(HardFetchReturns(h))
         /\ WF_vars(HardStartReturns(h))
         /\ WF_vars(HardVoiceReturns(h))

\* C32: socket-error revision: once errors are counted and the last counted
\* one is more than 30 s old, the counter is eventually reset to 0 (or a new
\* error is counted, or the component is torn down), in every session state.
C32_ErrorBudgetDecays ==
    (rev = "SE" /\ mounted /\ webSocketErrors > 0 /\ sinceLastError > ERROR_DECAY)
        ~> (webSocketErrors = 0 \/ sinceLastError <= ERROR_DECAY \/ ~mounted)

(***************************************************************************)
(* Socket-error revision: the voice channel's restarts (C33).              *)
(***************************************************************************)
\* the callers suspended in a stopVoiceChat() / startVoiceChat() sequence:
\* restartVoiceChat() (Fix Microphone, the socket-error watcher, the error
\* monitor), the watchdog's softRestartTracks() and hardReset()
VoiceSequences ==
    {<<"restartVoiceChat", r>> : r \in {q \in RestartSlots : restartTask[q] # "idle"}}
    \cup {<<"softRestartTracks", i>> : i \in {j \in Ticks : ticks[j].pc = "soft"}}
    \cup {<<"hardReset", h>> : h \in {g \in HardSlots : hardResets[g].pc = "voice"}}

\* C33: socket-error revision: at most one voice-channel (re)start is in
\* flight at any time, whichever of restartVoiceChat, the watchdog's soft
\* restart and hardReset runs it.
C33_OneVoiceRestart ==
    rev = "SE" => Cardinality(VoiceSequences) <= 1

(***************************************************************************)
(* Watchdog revision: softRestartTracks and its rejections (C34).          *)
(***************************************************************************)
\* a softRestartTracks() call reaches its startVoiceChat() in this step
SoftRestartBegins ==
    \/ softRestarts' > softRestarts
    \/ \E i \in Ticks : ticks[i].pc # "soft" /\ ticks'[i].pc = "soft"

\* the rejections softRestartTracks passes on to its caller: the message has
\* neither "400" nor "already" in it
Rethrown(o) ==
    o # "resolve" /\ MessageOf(o) \cap {"400", "already"} = {}

\* C34: watchdog revision: softRestartTracks calls nothing while the session
\* is not connected; a rejection whose message contains "400" or "already"
\* ends the call as a success (the watchdog counts the restart); every other
\* rejection, one with "401" included, is re-thrown (the watchdog's catch
\* block runs); and softRestartTracks itself never calls hardReset: one
\* begins only in the watchdog callback, on a re-thrown rejection or on the
\* third counted restart.
C34_SoftRestartClassifies ==
    [][rev = "WD" =>
         /\ sessionState # "CONNECTED" => ~SoftRestartBegins
         /\ \A i \in Ticks :
               (ticks[i].pc = "soft" /\ ticks'[i].pc # "soft") =>
                  /\ \A o \in SoftVoiceOutcomes :
                        (Rethrown(o) # (ticks'[i].pc = "hardE")) => ~TickSoftSettles(i, o)
                  /\ ticks'[i].pc = "idle" =>
                        /\ watchdog[ticks[i].cl].freezeCount + 1 < SOFT_LIMIT
                        /\ ticks[i].cl = watchdogIntervalRef =>
                              watchdog'[ticks[i].cl].freezeCount =
                                 watchdog[ticks[i].cl].freezeCount + 1
                  /\ ticks'[i].pc = "hardT" =>
                        watchdog[ticks[i].cl].freezeCount + 1 >= SOFT_LIMIT
                  /\ HardResetBegins <=> ticks'[i].pc \in {"hardE", "hardT"}
         /\ softRestarts' < softRestarts =>
               (~HardResetBegins /\ UNCHANGED <<sessionState, watchdog, ticks>>)]_vars

\* a watchdog callback is in its catch block: the softRestartTracks() it
\* awaited re-threw a rejection
C34_Witness ==
    /\ rev = "WD"
    /\ \E i \in Ticks : ticks[i].pc = "hardE" /\ ticks[i].soft = "throw"

(***************************************************************************)
(* Watchdog revision: what the freeze counter counts (C35).                *)
(***************************************************************************)
\* the live interval's callback finds the playback position changed
AdvancingSample ==
    /\ watchdogIntervalRef # 0
    /\ sessionState = "CONNECTED"
    /\ videoTime # watchdog[watchdogIntervalRef].previousTime
    /\ \A i \in Ticks : ticks'[i].pc = ticks[i].pc
    /\ WatchdogTick

\* callback i of the live interval resumes from a soft restart that
\* completed: its frozen sample is counted
SampleCounted(i) ==
    /\ ticks[i].pc = "soft"
    /\ ticks[i].cl = watchdogIntervalRef
    /\ ticks'[i].pc \in {"idle", "hardT"}

\* C35: watchdog revision: a sample that finds the playback position changed
\* zeroes the freeze counter and stores the position, and the counter counts
\* only frozen samples taken after the latest such sample, so the samples
\* behind a threshold hard reset are consecutive frozen samples.
C35_CountsConsecutiveFrozenSamples ==
    /\ [][(rev = "WD" /\ AdvancingSample) =>
            watchdog'[watchdogIntervalRef] =
               [previousTime |-> videoTime, freezeCount |-> 0]]_vars
    /\ [][\A i \in Ticks :
            (rev = "WD" /\ SampleCounted(i)) => ticks[i].soft # "overtaken"]_vars

(***************************************************************************)
(* Requests that find a timer pending (C36).                               *)
(***************************************************************************)
\* a step in which hardResetWithBackoff is called: the STREAM_DISCONNECTED
\* handler's finally block, the online listener or the callback's catch block
\* (back-off revision); the grace timer's callback or the callback's catch
\* block (grace-window revision)
HardResetRequestStep ==
    \/ /\ rev = "IA"
       /\ \/ softRestarts' < softRestarts
          \/ ~online /\ online' /\ mounted
          \/ BodyFailsStep
    \/ /\ rev = "GW"
       /\ \/ reconnectRef.graceTimer # 0 /\ reconnectRef'.graceTimer = 0 /\ GraceTimerFires_GW
          \/ BodyFailsStep

\* a step in which a disruption handler of the grace-window revision runs
DisruptionStep ==
    /\ rev = "GW"
    /\ voicePausedRef'
    /\ StreamDisconnected_GW \/ TrackProblem_GW

\* C36: back-off and grace-window revisions: a hard-reset request made while
\* a back-off timer is pending leaves the attempt counter, the timer and its
\* delay as they are, and at most one back-off timer is pending at any
\* instant; in the grace-window revision a disconnect or track problem that
\* finds a grace timer pending arms no second one, and at most one grace
\* timer is pending.
C36_RequestWhilePendingIsNoOp ==
    /\ [][(reconnectRef.timer # 0 /\ HardResetRequestStep) =>
            /\ reconnectRef'.attempts = reconnectRef.attempts
            /\ reconnectRef'.timer = reconnectRef.timer
            /\ {t \in timers' : t.kind = "backoff"} = BackoffTimers]_vars
    /\ [][(reconnectRef.graceTimer # 0 /\ DisruptionStep) =>
            UNCHANGED <<reconnectRef, timers>>]_vars
    /\ [](rev \in {"IA", "GW"} =>
            /\ Cardinality(BackoffTimers) <= 1
            /\ Cardinality(GraceTimers) <= 1
            /\ NoOrphanTimers)

\* a STREAM_DISCONNECTED handler is about to request a hard reset while the
\* back-off timer of an earlier request is pending
C36_Witness ==
    /\ rev = "IA"
    /\ reconnectRef.timer # 0
    /\ softRestarts > 0

(***************************************************************************)
(* Grace-window revision: the in-flight flags of safeStart, safeStop and   *)
(* maybeResumeVoice (C37).                                                 *)
(***************************************************************************)
\* the callers suspended in startAvatar() inside safeStart, in stopAvatar()
\* inside safeStop and in startVoiceChat() inside maybeResumeVoice
InSafeStart == startTask.pc = "start" \/ \E s \in Slots : body[s].pc = "start"
InSafeStop == \E s \in Slots : body[s].pc = "stop"
InResumeVoice == resumeTask = "voice" \/ \E s \in Slots : body[s].pc = "voice"

\* C37: grace-window revision: startInFlight, stopInFlight and
\* voiceStartInFlight are set exactly while a startAvatar, stopAvatar or
\* startVoiceChat call of safeStart, safeStop or maybeResumeVoice is pending,
\* whatever the call's outcome; safeStop calls stopAvatar only while the
\* session is connected and returns normally whether the stop resolves or
\* rejects (the callback goes on to its settle delay); and a safeStart that
\* follows it calls startAvatar unless another start is in flight.
C37_FlagsReleased ==
    /\ [](rev = "GW" =>
            /\ startInFlight <=> InSafeStart
            /\ stopInFlight <=> InSafeStop
            /\ voiceStartInFlight <=> InResumeVoice)
    /\ [][rev = "GW" =>
            \A s \in Slots :
               /\ (body[s].pc = "idle" /\ body'[s].pc # "idle") =>
                     /\ body'[s].pc = "stop" <=> (sessionState = "CONNECTED" /\ ~stopInFlight)
                     /\ body'[s].pc # "stop" => (body'[s].pc = "settle" /\ UNCHANGED stopInFlight)
               /\ (body[s].pc = "stop" /\ body'[s].pc # "stop") =>
                     (body'[s].pc = "settle" /\ ~stopInFlight')
               /\ (body[s].pc = "fetch" /\ body'[s].pc # "fetch" /\ ~startInFlight
                     /\ ~(body'[s].pc = "idle" /\ lastResetLog' = "failed")) =>
                     (body'[s].pc = "start" /\ startInFlight')]_vars

\* a hard-reset callback is past its safeStop with the session still connected:
\* its stopAvatar() was rejected and the rejection swallowed
C37_Witness ==
    /\ rev = "GW"
    /\ ~stopInFlight
    /\ sessionState = "CONNECTED"
    /\ \E s \in Slots : body[s].pc = "settle"

(***************************************************************************)
(* The back-off revision with one disruption from outside: the session     *)
(* drops once, before any hard reset has run; afterwards the only          *)
(* STREAM_DISCONNECTED is the one the old session emits while the          *)
(* callback's stopAvatar() is in flight.                                   *)
(***************************************************************************)

\* the session drops while no recovery is under way and none has run
ExternalDisconnect ==
    /\ lastResetLog = "none"
    /\ Executing = {}
    /\ reconnectRef.timer = 0
    /\ softRestarts = 0
    /\ startTask.pc = "idle"
    /\ StreamDisconnected_IA

\* the session the callback is stopping emits STREAM_DISCONNECTED
StopDisconnect ==
    /\ \E s \in Slots : body[s].pc = "stop"
    /\ StreamDisconnected_IA

NextSS ==
    \/ \E v \in BOOLEAN : startSessionV2_IA(v)
    \/ StartFetchReturns_IA
    \/ StartStartReturns_IA
    \/ StartVoiceReturns_IA
    \/ StreamReady_IA
    \/ ExternalDisconnect
    \/ StopDisconnect
    \/ SoftRestartReturns_IA
    \/ BackoffTimerFires_IA
    \/ \E s \in Slots : BodyStopReturns_IA(s)
    \/ \E s \in Slots : BodySettleElapses_IA(s)
    \/ \E s \in Slots : BodyFetchReturns_IA(s)
    \/ \E s \in Slots : BodyStartReturns_IA(s)
    \/ \E s \in Slots : BodyVoiceReturns_IA(s)

SpecSS == InitIA /\ [][NextSS]_vars

\* a hard-reset callback returns having logged "HARD reset done"
HardResetCompletes ==
    /\ lastResetLog' = "done"
    /\ \E s \in Slots : body[s].pc # "idle" /\ body'[s].pc = "idle"

\* the coordinator is idle: nothing armed, nothing running, nothing pending
CoordinatorIdle ==
    /\ reconnectRef.timer = 0
    /\ BackoffTimers = {}
    /\ reconnectRef.attempts = 0
    /\ Executing = {}
    /\ softRestarts = 0

\* C38: back-off revision, the stopped session emitting STREAM_DISCONNECTED
\* and nothing else disturbing the session: a hard reset that completes
\* successfully leaves the coordinator idle (no back-off timer pending,
\* attempts = 0, no disconnect handler still to ask for a reset), and once it
\* has completed no hard reset is scheduled any more.
C38_HardResetSelfStabilises ==
    /\ [][(rev = "IA" /\ HardResetCompletes) => CoordinatorIdle']_vars
    /\ [][(rev = "IA" /\ lastResetLog = "done" /\ CoordinatorIdle)
             => CoordinatorIdle']_vars

(***************************************************************************)
(* The watchdog revision, the component mounted, with its interval and     *)
(* every awaited call fair.                                                *)
(***************************************************************************)
FairWD ==
    /\ SpecWM
    /\ WF_vars(WatchdogTick)
    /\ WF_vars(SoftRestartReturns_WD)
    /\ WF_vars(StartFetchReturns_WD)
    /\ WF_vars(StartStartReturns_WD)
    /\ WF_vars(StartVoiceReturns_WD)
    /\ \A i \in Ticks : WF_vars(TickSoftReturns(i))
    /\ \A h \in HardSlots :
         /\ WF_vars(HardStopReturns(h))
         /\ WF_vars(HardFetchReturns(h))
         /\ WF_vars(HardStartReturns(h))
         /\ WF_vars(HardVoiceReturns(h))

\* a started session (its keep-alive interval is armed) is no longer
\* connected, and neither startSession nor hardReset is at work on it
StreamLost ==
    /\ mounted
    /\ ~unmountStop
    /\ sessionState = "INACTIVE"
    /\ keepAliveIntervalRef # 0
    /\ startTask.pc = "idle"
    /\ HardExecuting = {}

\* C39: watchdog revision, timers and awaited calls fair: after a
\* STREAM_DISCONNECTED event that leaves the session not connected, a hard
\* reset is eventually invoked (or the user starts the session again).
C39_DisconnectLeadsToHardReset ==
    (rev = "WD" /\ StreamLost)
        ~> (HardExecuting # {} \/ startTask.pc # "idle")

====
